---- MODULE Spec2Model ----
(***************************************************************************)
(* Model of the ohmarwtf agent core: Signal Layer, State Layer, Decision   *)
(* Engine, Risk Guardrails, Paper Trading Simulator and the Orchestrator   *)
(* tick that chains them.                                                  *)
(*                                                                         *)
(* Numbers.  The program computes with IEEE doubles.  The model computes   *)
(* with decimal fixed point: a number x is the integer round(x * Scale),   *)
(* and every product and quotient is rounded to the nearest unit, the way  *)
(* a double rounds to its last mantissa bit.  sizePct = 0 stands for both  *)
(* 0 and undefined (the code tests it with !intent.sizePct only), and the  *)
(* empty string stands for an undefined tokenAddress.                      *)
(***************************************************************************)
EXTENDS Integers, Sequences, FiniteSets, TLC

VARIABLES
    now,              \* Date.now()
    \* PaperTradingSimulator
    capital, positions, mockPrices, tradeHistory, slippagePct, lastTrade,
    \* RiskGuardrails
    dailyTrades, dailyPnL, riskConfig, lastCheck,
    \* StateLayer
    state,
    \* DecisionEngine
    lastIntentTime, lastIntent, decideResult, decided, decideInput,
    \* SignalLayer
    activeSignals, eventWindow, signalIdCounter, newSignals, observed,
    \* Orchestrator
    cycle, lastPerceptionPoll, tickLog,
    \* Orchestrator.running, the activations of start() and stop(), process.exit
    running, loops, stops, exited,
    \* the object a consumer keeps from getState()
    held

simVars == <<capital, positions, mockPrices, tradeHistory, slippagePct, lastTrade>>
riskVars == <<dailyTrades, dailyPnL, riskConfig, lastCheck>>
decisionVars == <<lastIntentTime, lastIntent, decideResult, decided, decideInput>>
signalVars == <<activeSignals, eventWindow, signalIdCounter, newSignals, observed>>
loopVars == <<running, loops, stops, exited>>
orchVars == <<cycle, lastPerceptionPoll, tickLog, loopVars, held>>
vars == <<now, simVars, riskVars, state, decisionVars, signalVars, orchVars>>

----------------------------------------------------------------------------
(* Fixed-point arithmetic standing for the doubles of the program.         *)

Scale == 10 ^ 4

\* the decimal n/d, e.g. Dec(3, 10) is 0.3
Dec(n, d) == (n * Scale) \div d

\* the integer n as a number
Num(n) == n * Scale

Abs(x) == IF x < 0 THEN -x ELSE x
Min(a, b) == IF a <= b THEN a ELSE b
Max(a, b) == IF a >= b THEN a ELSE b
Sign(a, b) == IF (a < 0) = (b < 0) THEN 1 ELSE -1

\* the doubles NaN and Infinity: values no computation of the model yields
NaN == -(2 ^ 30)
Infinity == 2 ^ 30

\* a * b, rounded; the product is taken in two halves to stay inside 32 bits
Mul(a, b) ==
    IF a = NaN \/ b = NaN THEN NaN
    ELSE
    LET big == Max(Abs(a), Abs(b))
        small == Min(Abs(a), Abs(b))
    IN Sign(a, b) * ((big \div Scale) * small
                      + ((big % Scale) * small + Scale \div 2) \div Scale)

\* a / b, rounded; the remainder is scaled in two steps of 100;
\* x / 0 is Infinity for x > 0 and NaN for x = 0, NaN / b is NaN
Div(a, b) ==
    IF a = NaN \/ b = NaN \/ (a = 0 /\ b = 0) THEN NaN
    ELSE IF b = 0 THEN (IF a > 0 THEN Infinity ELSE -Infinity)
    ELSE
    LET x == Abs(a)
        y == Abs(b)
        q == x \div y
        t == (x % y) * 100
        q1 == t \div y
        r1 == t % y
    IN Sign(a, b) * (q * Scale + q1 * 100 + (r1 * 100 + y \div 2) \div y)

\* a + b and -a where an operand may be NaN
Add(a, b) == IF a = NaN \/ b = NaN THEN NaN ELSE a + b
Neg(a) == IF a = NaN THEN NaN ELSE -a

----------------------------------------------------------------------------
(* Bounds of the model.                                                    *)

MaxOps == 4          \* simulator operations in one behaviour
MaxAdvance == 6      \* clock advances in one behaviour
MaxWindow == 4       \* events held by the rolling window
MaxSignals == 2      \* signals created in one behaviour
MaxDecisions == 3    \* non-null intents returned in one behaviour
MaxCycles == 3       \* orchestrator ticks in one behaviour
MaxTrades == 2       \* entries of the daily trade ledger
MaxBook == 2         \* trades that build the book before it is inspected
DailyLimit == 2      \* the dailyTradeLimit tried besides 0 and an unset one
MaxLoops == 2        \* calls of start() that enter the loop
MaxStops == 2        \* calls of stop()
MaxDays == 5         \* days in which the State Layer sees trade outcomes
MaxIdle == 40        \* idle ticks after those days
MaxAdjustDays == 2   \* days in which token convictions are adjusted

Tokens == {"T1", "T2"}

----------------------------------------------------------------------------
(* Configuration (src/src/config/index.ts defaults).                       *)

initialCapital == Num(100)
windowSizeMs == 3600000
decayHalfLifeMs == 1800000
intentCooldownMs == 60000
perceptionPollMs == 30000
minConfidence == Dec(3, 10)
minSignalConfidence == Dec(5, 10)
baseRiskAppetite == Dec(4, 10)
maxPositionSizePct == Num(10)
maxTotalExposurePct == Num(50)

StartTime == windowSizeMs
HalfStep == decayHalfLifeMs \div 2
CooldownStep == intentCooldownMs \div 2

----------------------------------------------------------------------------
(* Paper Trading Simulator                                                 *)

NoTrade == [status |-> "none", error |-> "", filledAmount |-> 0, price |-> 0,
            direction |-> "none", tokenAddress |-> "", intentType |-> "none",
            intentSizePct |-> 0]

\* index of the token's Position in the map (insertion order), 0 if absent
PosIndex(ps, token) ==
    IF \E i \in DOMAIN ps : ps[i].tokenAddress = token
    THEN CHOOSE i \in DOMAIN ps : ps[i].tokenAddress = token
    ELSE 0

RemoveAt(s, i) == [j \in 1..(Len(s) - 1) |-> IF j < i THEN s[j] ELSE s[j + 1]]

\* Map.set: an existing key keeps its place, a new key is appended
MapSet(ps, p) ==
    LET i == PosIndex(ps, p.tokenAddress)
    IN IF i = 0 THEN Append(ps, p) ELSE [ps EXCEPT ![i] = p]

getDirection(intentType) ==
    IF intentType \in {"enter", "add"} THEN "buy" ELSE "sell"

\* a catch block that records the message and leaves the status PENDING
Failed_Pending(sim, intent, msg) ==
    [capital |-> sim.capital, positions |-> sim.positions,
     mockPrices |-> sim.mockPrices, tradeHistory |-> sim.tradeHistory,
     result |-> [status |-> "pending", error |-> msg, filledAmount |-> 0,
                 price |-> 0, direction |-> getDirection(intent.type),
                 tokenAddress |-> intent.tokenAddress, intentType |-> intent.type,
                 intentSizePct |-> intent.sizePct]]

\* the catch block of execute: the thrown error becomes a FAILED result
Failed(sim, intent, msg) ==
    [capital |-> sim.capital, positions |-> sim.positions,
     mockPrices |-> sim.mockPrices, tradeHistory |-> sim.tradeHistory,
     result |-> [status |-> "failed", error |-> msg, filledAmount |-> 0,
                 price |-> 0, direction |-> getDirection(intent.type),
                 tokenAddress |-> intent.tokenAddress, intentType |-> intent.type,
                 intentSizePct |-> intent.sizePct]]

Filled(sim, intent, cap, ps, price, amount, actualPrice, dir) ==
    [capital |-> cap, positions |-> ps,
     mockPrices |-> [sim.mockPrices EXCEPT ![intent.tokenAddress] = price],
     tradeHistory |-> sim.tradeHistory + 1,
     result |-> [status |-> "filled", error |-> "", filledAmount |-> amount,
                 price |-> actualPrice, direction |-> dir,
                 tokenAddress |-> intent.tokenAddress, intentType |-> intent.type,
                 intentSizePct |-> intent.sizePct]]

\* getMockPrice: the cached price moved by the drawn change
getMockPrice(sim, token, change) ==
    Mul(sim.mockPrices[token], Scale + change)

\* an entry that debits the capital before it finds it insufficient
simulateEnter_DebitFirst(sim, intent, change) ==
    IF intent.tokenAddress = "" \/ intent.sizePct = 0
    THEN Failed(sim, intent, "Missing token address or size")
    ELSE
    LET investAmount == Mul(sim.capital, Div(intent.sizePct, Num(100)))
    IN  IF investAmount > sim.capital
        THEN [Failed(sim, intent, "Insufficient capital")
                EXCEPT !.capital = sim.capital - investAmount]
        ELSE
        LET price == getMockPrice(sim, intent.tokenAddress, change)
            slippage == Div(sim.slippagePct, Num(100))
            actualPrice == Mul(price, Scale + slippage)
            amount == Div(investAmount, actualPrice)
            position == [tokenAddress |-> intent.tokenAddress,
                         amount |-> amount,
                         averageEntryPrice |-> actualPrice,
                         currentPrice |-> actualPrice,
                         unrealizedPnL |-> 0,
                         unrealizedPnLPct |-> 0]
        IN Filled(sim, intent, sim.capital - investAmount,
                  MapSet(sim.positions, position), price, amount, actualPrice, "buy")

simulateEnter(sim, intent, change) ==
    IF intent.tokenAddress = "" \/ intent.sizePct = 0
    THEN Failed(sim, intent, "Missing token address or size")
    ELSE
    LET investAmount == Mul(sim.capital, Div(intent.sizePct, Num(100)))
    IN  IF investAmount > sim.capital
        THEN Failed(sim, intent, "Insufficient capital")
        ELSE
        LET price == getMockPrice(sim, intent.tokenAddress, change)
            slippage == Div(sim.slippagePct, Num(100))
            actualPrice == Mul(price, Scale + slippage)
            amount == Div(investAmount, actualPrice)
            position == [tokenAddress |-> intent.tokenAddress,
                         amount |-> amount,
                         averageEntryPrice |-> actualPrice,
                         currentPrice |-> actualPrice,
                         unrealizedPnL |-> 0,
                         unrealizedPnLPct |-> 0]
        IN Filled(sim, intent, sim.capital - investAmount,
                  MapSet(sim.positions, position), price, amount, actualPrice, "buy")

simulateExit(sim, intent, change) ==
    IF intent.tokenAddress = ""
    THEN Failed(sim, intent, "Missing token address")
    ELSE
    LET i == PosIndex(sim.positions, intent.tokenAddress)
    IN  IF i = 0
        THEN Failed(sim, intent, "No position to exit")
        ELSE
        LET position == sim.positions[i]
            price == getMockPrice(sim, intent.tokenAddress, change)
            slippage == Div(sim.slippagePct, Num(100))
            actualPrice == Mul(price, Scale - slippage)
            proceeds == Mul(position.amount, actualPrice)
        IN Filled(sim, intent, sim.capital + proceeds,
                  RemoveAt(sim.positions, i), price, position.amount,
                  actualPrice, "sell")

\* an addition sized on the initial capital instead of the capital left
simulateAdd_OfInitialCapital(sim, intent, change) ==
    IF intent.tokenAddress = "" \/ intent.sizePct = 0
    THEN Failed(sim, intent, "Missing token address or size")
    ELSE
    LET i == PosIndex(sim.positions, intent.tokenAddress)
    IN  IF i = 0
        THEN Failed(sim, intent, "No position to add to")
        ELSE
        LET position == sim.positions[i]
            investAmount == Mul(initialCapital, Div(intent.sizePct, Num(100)))
            price == getMockPrice(sim, intent.tokenAddress, change)
            slippage == Div(sim.slippagePct, Num(100))
            actualPrice == Mul(price, Scale + slippage)
            additionalAmount == Div(investAmount, actualPrice)
            totalCost == Add(Mul(position.amount, position.averageEntryPrice),
                             investAmount)
            totalAmount == position.amount + additionalAmount
            updated == [position EXCEPT
                          !.averageEntryPrice = Div(totalCost, totalAmount),
                          !.amount = totalAmount]
        IN Filled(sim, intent, sim.capital - investAmount,
                  [sim.positions EXCEPT ![i] = updated], price,
                  additionalAmount, actualPrice, "buy")

simulateAdd(sim, intent, change) ==
    IF intent.tokenAddress = "" \/ intent.sizePct = 0
    THEN Failed(sim, intent, "Missing token address or size")
    ELSE
    LET i == PosIndex(sim.positions, intent.tokenAddress)
    IN  IF i = 0
        THEN Failed(sim, intent, "No position to add to")
        ELSE
        LET position == sim.positions[i]
            investAmount == Mul(sim.capital, Div(intent.sizePct, Num(100)))
            price == getMockPrice(sim, intent.tokenAddress, change)
            slippage == Div(sim.slippagePct, Num(100))
            actualPrice == Mul(price, Scale + slippage)
            additionalAmount == Div(investAmount, actualPrice)
            totalCost == Add(Mul(position.amount, position.averageEntryPrice),
                             investAmount)
            totalAmount == position.amount + additionalAmount
            updated == [position EXCEPT
                          !.averageEntryPrice = Div(totalCost, totalAmount),
                          !.amount = totalAmount]
        IN Filled(sim, intent, sim.capital - investAmount,
                  [sim.positions EXCEPT ![i] = updated], price,
                  additionalAmount, actualPrice, "buy")

\* a reduction that closes the Position once nothing is left of it
simulateReduce_Closing(sim, intent, change) ==
    IF intent.tokenAddress = "" \/ intent.sizePct = 0
    THEN Failed(sim, intent, "Missing token address or size")
    ELSE
    LET i == PosIndex(sim.positions, intent.tokenAddress)
    IN  IF i = 0
        THEN Failed(sim, intent, "No position to reduce")
        ELSE
        LET position == sim.positions[i]
            reduceAmount == Mul(position.amount, Div(intent.sizePct, Num(100)))
            price == getMockPrice(sim, intent.tokenAddress, change)
            slippage == Div(sim.slippagePct, Num(100))
            actualPrice == Mul(price, Scale - slippage)
            proceeds == Mul(reduceAmount, actualPrice)
            updated == [position EXCEPT !.amount = position.amount - reduceAmount]
        IN Filled(sim, intent, sim.capital + proceeds,
                  IF updated.amount = 0 THEN RemoveAt(sim.positions, i)
                  ELSE [sim.positions EXCEPT ![i] = updated], price,
                  reduceAmount, actualPrice, "sell")

simulateReduce(sim, intent, change) ==
    IF intent.tokenAddress = "" \/ intent.sizePct = 0
    THEN Failed(sim, intent, "Missing token address or size")
    ELSE
    LET i == PosIndex(sim.positions, intent.tokenAddress)
    IN  IF i = 0
        THEN Failed(sim, intent, "No position to reduce")
        ELSE
        LET position == sim.positions[i]
            reduceAmount == Mul(position.amount, Div(intent.sizePct, Num(100)))
            price == getMockPrice(sim, intent.tokenAddress, change)
            slippage == Div(sim.slippagePct, Num(100))
            actualPrice == Mul(price, Scale - slippage)
            proceeds == Mul(reduceAmount, actualPrice)
            updated == [position EXCEPT !.amount = position.amount - reduceAmount]
        IN Filled(sim, intent, sim.capital + proceeds,
                  [sim.positions EXCEPT ![i] = updated], price,
                  reduceAmount, actualPrice, "sell")

\* PaperTradingSimulator.execute as a function of the simulator's fields
execute(sim, intent, change) ==
    CASE intent.type = "enter" -> simulateEnter(sim, intent, change)
      [] intent.type = "exit" -> simulateExit(sim, intent, change)
      [] intent.type = "add" -> simulateAdd(sim, intent, change)
      [] intent.type = "reduce" -> simulateReduce(sim, intent, change)
      [] OTHER ->
            [capital |-> sim.capital, positions |-> sim.positions,
             mockPrices |-> sim.mockPrices, tradeHistory |-> sim.tradeHistory + 1,
             result |-> [status |-> "cancelled",
                         error |-> "Cannot execute in simulator",
                         filledAmount |-> 0, price |-> 0,
                         direction |-> getDirection(intent.type),
                         tokenAddress |-> intent.tokenAddress,
                         intentType |-> intent.type,
                         intentSizePct |-> intent.sizePct]]

Sim == [capital |-> capital, positions |-> positions, mockPrices |-> mockPrices,
        tradeHistory |-> tradeHistory, slippagePct |-> slippagePct]

RECURSIVE SumValue(_)
SumValue(ps) ==
    IF ps = <<>> THEN 0
    ELSE LET p == Head(ps)
         IN Mul(p.amount, IF p.currentPrice # 0 THEN p.currentPrice
                          ELSE p.averageEntryPrice) + SumValue(Tail(ps))

getTotalValue == capital + SumValue(positions)

----------------------------------------------------------------------------
(* Risk Guardrails                                                         *)

\* Absent stands for undefined: an optional field that is not set, a key a
\* Map does not hold
Absent == -1

\* the configuration loadConfig() builds from an empty environment:
\* DAILY_TRADE_LIMIT unset leaves dailyTradeLimit undefined
DefaultRiskConfig ==
    [maxPositionSizePct |-> maxPositionSizePct, maxDailyLossPct |-> Num(20),
     maxTotalExposurePct |-> maxTotalExposurePct, dailyTradeLimit |-> Absent]

Risk == [config |-> riskConfig, dailyTrades |-> dailyTrades, dailyPnL |-> dailyPnL]

shouldEnterSafeMode(risk) ==
    LET lossPct == Abs(risk.dailyPnL)
    IN lossPct >= risk.config.maxDailyLossPct

\* (sum of amount * (currentPrice || averageEntryPrice) / capital) * 100
calculateExposure(ps, cap) ==
    LET totalValue == SumValue(ps)
        ratio == Div(totalValue, cap)
    IN IF ratio = NaN \/ Abs(ratio) = Infinity THEN ratio ELSE Mul(ratio, Num(100))

NoCheck == [approved |-> FALSE, reason |-> "none", adjustedSizePct |-> 0]

Verdict(approved, reason, adjusted) ==
    [approved |-> approved, reason |-> reason, adjustedSizePct |-> adjusted]

\* guardrails that approve an oversized ENTER or ADD without reducing it
checkIntent_NoClamp(risk, intent, ps, cap) ==
    IF intent.type \in {"wait", "watch"}
    THEN Verdict(TRUE, "", 0)
    ELSE IF risk.config.dailyTradeLimit \notin {Absent, 0}
            /\ risk.dailyTrades >= risk.config.dailyTradeLimit
    THEN Verdict(FALSE, "Daily trade limit reached", 0)
    ELSE IF shouldEnterSafeMode(risk)
    THEN Verdict(FALSE, "Safe mode active due to losses", 0)
    ELSE IF intent.type \in {"enter", "add"} /\ intent.sizePct = 0
    THEN Verdict(FALSE, "No size specified", 0)
    ELSE IF intent.type \in {"enter", "add"}
            /\ intent.sizePct > risk.config.maxPositionSizePct
    THEN Verdict(TRUE, "", 0)
    ELSE LET currentExposure == calculateExposure(ps, cap)
         IN IF intent.type = "enter" /\ currentExposure # NaN
               /\ currentExposure >= risk.config.maxTotalExposurePct
            THEN Verdict(FALSE, "Maximum exposure reached", 0)
            ELSE Verdict(TRUE, "", 0)

\* guardrails that test the daily trade limit before the intent type
checkIntent_LimitFirst(risk, intent, ps, cap) ==
    IF risk.config.dailyTradeLimit \notin {Absent, 0}
       /\ risk.dailyTrades >= risk.config.dailyTradeLimit
    THEN Verdict(FALSE, "Daily trade limit reached", 0)
    ELSE IF intent.type \in {"wait", "watch"}
    THEN Verdict(TRUE, "", 0)
    ELSE IF shouldEnterSafeMode(risk)
    THEN Verdict(FALSE, "Safe mode active due to losses", 0)
    ELSE IF intent.type \in {"enter", "add"} /\ intent.sizePct = 0
    THEN Verdict(FALSE, "No size specified", 0)
    ELSE IF intent.type \in {"enter", "add"}
            /\ intent.sizePct > risk.config.maxPositionSizePct
    THEN Verdict(TRUE, "Size reduced", risk.config.maxPositionSizePct)
    ELSE LET currentExposure == calculateExposure(ps, cap)
         IN IF intent.type = "enter" /\ currentExposure # NaN
               /\ currentExposure >= risk.config.maxTotalExposurePct
            THEN Verdict(FALSE, "Maximum exposure reached", 0)
            ELSE Verdict(TRUE, "", 0)

checkIntent(risk, intent, ps, cap) ==
    IF intent.type \in {"wait", "watch"}
    THEN Verdict(TRUE, "", 0)
    ELSE IF risk.config.dailyTradeLimit \notin {Absent, 0}
            /\ risk.dailyTrades >= risk.config.dailyTradeLimit
    THEN Verdict(FALSE, "Daily trade limit reached", 0)
    ELSE IF shouldEnterSafeMode(risk)
    THEN Verdict(FALSE, "Safe mode active due to losses", 0)
    ELSE IF intent.type \in {"enter", "add"} /\ intent.sizePct = 0
    THEN Verdict(FALSE, "No size specified", 0)
    ELSE IF intent.type \in {"enter", "add"}
            /\ intent.sizePct > risk.config.maxPositionSizePct
    THEN Verdict(TRUE, "Size reduced", risk.config.maxPositionSizePct)
    ELSE LET currentExposure == calculateExposure(ps, cap)
         IN IF intent.type = "enter" /\ currentExposure # NaN
               /\ currentExposure >= risk.config.maxTotalExposurePct
            THEN Verdict(FALSE, "Maximum exposure reached", 0)
            ELSE Verdict(TRUE, "", 0)

----------------------------------------------------------------------------
(* Intents                                                                 *)

NoIntent == [type |-> "null", tokenAddress |-> "", sizePct |-> 0,
             primaryReason |-> "", supportingSignals |-> <<>>, timestamp |-> 0,
             stateSnapshot |-> [mood |-> "", confidence |-> 0, riskAppetite |-> 0],
             riskApproved |-> "undefined", riskBlockReason |-> ""]

----------------------------------------------------------------------------
(* State Layer                                                             *)

InitialState ==
    [timestamp |-> StartTime,
     confidence |-> Dec(5, 10), suspicion |-> Dec(5, 10), conviction |-> Dec(5, 10),
     fatigue |-> 0, aggression |-> Dec(3, 10), regret |-> 0,
     primaryMood |-> "neutral", secondaryMood |-> "undefined",
     riskAppetite |-> baseRiskAppetite,
     mode |-> "observing",
     recentWinStreak |-> 0, recentLossStreak |-> 0,
     lastTradeTimestamp |-> 0, daysSinceLastTrade |-> 0,
     tokenConvictions |-> [t \in Tokens |-> Absent]]

\* a cascade that tests suspicion before regret
primaryMoodOf_SuspicionFirst(s) ==
    IF s.suspicion > Dec(6, 10) THEN "suspicious"
    ELSE IF s.regret > Dec(6, 10) THEN "regretful"
    ELSE IF s.fatigue > Dec(7, 10) THEN "fatigued"
    ELSE IF s.confidence > Dec(7, 10) /\ s.conviction > Dec(6, 10) THEN "confident"
    ELSE IF s.aggression > Dec(6, 10) /\ s.confidence > Dec(5, 10) THEN "aggressive"
    ELSE IF s.conviction > Dec(7, 10) THEN "obsessed"
    ELSE IF s.confidence < Dec(4, 10) THEN "cautious"
    ELSE "neutral"

\* the first matching branch of the mood cascade
primaryMoodOf(s) ==
    IF s.regret > Dec(6, 10) THEN "regretful"
    ELSE IF s.fatigue > Dec(7, 10) THEN "fatigued"
    ELSE IF s.suspicion > Dec(6, 10) THEN "suspicious"
    ELSE IF s.confidence > Dec(7, 10) /\ s.conviction > Dec(6, 10) THEN "confident"
    ELSE IF s.aggression > Dec(6, 10) /\ s.confidence > Dec(5, 10) THEN "aggressive"
    ELSE IF s.conviction > Dec(7, 10) THEN "obsessed"
    ELSE IF s.confidence < Dec(4, 10) THEN "cautious"
    ELSE "neutral"

\* the first entry of the stable descending sort of the other moods
secondaryMoodOf(s, primary) ==
    LET params == << [mood |-> "regretful", value |-> s.regret],
                     [mood |-> "suspicious", value |-> s.suspicion],
                     [mood |-> "cautious",
                      value |-> IF s.confidence < Dec(5, 10) THEN Dec(8, 10) ELSE 0],
                     [mood |-> "fatigued", value |-> s.fatigue] >>
        rest == SelectSeq(params, LAMBDA q : q.mood # primary)
        top == CHOOSE i \in DOMAIN rest :
                 /\ \A j \in DOMAIN rest : rest[j].value <= rest[i].value
                 /\ \A j \in 1..(i - 1) : rest[j].value < rest[i].value
    IN IF rest # <<>> /\ rest[top].value > Dec(4, 10)
       THEN rest[top].mood ELSE "undefined"

updateMood(s) ==
    LET primary == primaryMoodOf(s)
    IN [s EXCEPT !.primaryMood = primary,
                 !.secondaryMood = secondaryMoodOf(s, primary)]

\* an update that takes every FILLED trade for a win
updateFromTrade_AnyFill(s, trade, t) ==
    LET isWin == trade.status = "filled"
        isLoss == trade.status = "failed" \/ trade.error # ""
        adjusted ==
          IF isWin
          THEN [s EXCEPT
                  !.confidence = Min(Dec(95, 100), s.confidence + Dec(8, 100)),
                  !.regret = Max(0, s.regret - Dec(5, 100)),
                  !.conviction = Min(Dec(95, 100), s.conviction + Dec(6, 100)),
                  !.recentWinStreak = s.recentWinStreak + 1,
                  !.recentLossStreak = 0,
                  !.riskAppetite = Min(Dec(9, 10), s.riskAppetite + Dec(3, 100))]
          ELSE IF isLoss
          THEN [s EXCEPT
                  !.confidence = Max(Dec(1, 10), s.confidence - Dec(12, 100)),
                  !.regret = Min(Dec(9, 10), s.regret + Dec(15, 100)),
                  !.suspicion = Min(Dec(9, 10), s.suspicion + Dec(1, 10)),
                  !.recentLossStreak = s.recentLossStreak + 1,
                  !.recentWinStreak = 0,
                  !.riskAppetite = Max(Dec(1, 10), s.riskAppetite - Dec(8, 100))]
          ELSE s
    IN [updateMood(adjusted) EXCEPT !.lastTradeTimestamp = t, !.timestamp = t]

updateFromTrade(s, trade, t) ==
    LET isWin == trade.status = "filled" /\ trade.filledAmount > 0
        isLoss == trade.status = "failed" \/ trade.error # ""
        adjusted ==
          IF isWin
          THEN [s EXCEPT
                  !.confidence = Min(Dec(95, 100), s.confidence + Dec(8, 100)),
                  !.regret = Max(0, s.regret - Dec(5, 100)),
                  !.conviction = Min(Dec(95, 100), s.conviction + Dec(6, 100)),
                  !.recentWinStreak = s.recentWinStreak + 1,
                  !.recentLossStreak = 0,
                  !.riskAppetite = Min(Dec(9, 10), s.riskAppetite + Dec(3, 100))]
          ELSE IF isLoss
          THEN [s EXCEPT
                  !.confidence = Max(Dec(1, 10), s.confidence - Dec(12, 100)),
                  !.regret = Min(Dec(9, 10), s.regret + Dec(15, 100)),
                  !.suspicion = Min(Dec(9, 10), s.suspicion + Dec(1, 10)),
                  !.recentLossStreak = s.recentLossStreak + 1,
                  !.recentWinStreak = 0,
                  !.riskAppetite = Max(Dec(1, 10), s.riskAppetite - Dec(8, 100))]
          ELSE s
    IN [updateMood(adjusted) EXCEPT !.lastTradeTimestamp = t, !.timestamp = t]

\* milliseconds as days: ms / (1000 * 60 * 60 * 24)
Days(ms) == (ms + 4320) \div 8640

stateTick(s, t) ==
    LET traded == s.lastTradeTimestamp # 0
        daysSince == Days(t - s.lastTradeTimestamp)
        s1 == IF traded
              THEN [s EXCEPT
                      !.daysSinceLastTrade = daysSince,
                      !.fatigue = IF daysSince > Num(2)
                                  THEN Min(Dec(9, 10), s.fatigue + Dec(2, 100))
                                  ELSE s.fatigue]
              ELSE s
        baseline == Dec(5, 10)
        s2 == [s1 EXCEPT
                 !.regret = Mul(s1.regret, Dec(98, 100)),
                 !.suspicion = Mul(s1.suspicion, Dec(99, 100)),
                 !.aggression = Mul(s1.aggression, Dec(97, 100)),
                 !.confidence = s1.confidence
                                + Mul(baseline - s1.confidence, Dec(5, 100)),
                 !.conviction = Mul(s1.conviction, Dec(95, 100))]
    IN [updateMood(s2) EXCEPT !.timestamp = t]

setMode(s, mode, t) == [s EXCEPT !.mode = mode, !.timestamp = t]

\* getState: { ...this.state }, the state as the caller reads it at the call.
\* The copy is shallow: its scalar fields are the caller's own, its
\* tokenConvictions is the StateLayer's Map itself.
getState(s) == s

\* the fields of a getState() result that the spread copies by value
Scalars(s) == [f \in DOMAIN s \ {"tokenConvictions"} |-> s[f]]

\* adjustTokenConviction: get(token) || 0.5 moved by delta within [0, 1]
\* an adjustment stored without the clamp to [0, 1]
adjustTokenConviction_Unclamped(s, token, delta, t) ==
    LET stored == s.tokenConvictions[token]
        current == IF stored = Absent \/ stored = 0 THEN Dec(5, 10) ELSE stored
    IN [s EXCEPT !.tokenConvictions[token] = current + delta,
                 !.timestamp = t]

adjustTokenConviction(s, token, delta, t) ==
    LET stored == s.tokenConvictions[token]
        current == IF stored = Absent \/ stored = 0 THEN Dec(5, 10) ELSE stored
    IN [s EXCEPT !.tokenConvictions[token] = Max(0, Min(Num(1), current + delta)),
                 !.timestamp = t]

----------------------------------------------------------------------------
(* Decision Engine                                                         *)

canDecide(last, t) == t - last >= intentCooldownMs

KeyOf(signal) == IF signal.tokenAddress = "" THEN "general" ELSE signal.tokenAddress

\* the signals of a token, as signalsByToken.get(token) || []
SignalsFor(valid, token) == SelectSeq(valid, LAMBDA g : KeyOf(g) = token)

\* signals.find(s => s.type === type): its index, 0 if there is none
FindType(sigs, type) ==
    IF \E i \in DOMAIN sigs : sigs[i].type = type
    THEN CHOOSE i \in DOMAIN sigs :
           sigs[i].type = type /\ \A j \in 1..(i - 1) : sigs[j].type # type
    ELSE 0

Ids(sigs) == [i \in DOMAIN sigs |-> sigs[i].id]

createIntent(type, st, sigs, reason, token, size, t) ==
    [type |-> type, tokenAddress |-> token, sizePct |-> size,
     primaryReason |-> reason, supportingSignals |-> Ids(sigs), timestamp |-> t,
     stateSnapshot |-> [mood |-> st.primaryMood, confidence |-> st.confidence,
                        riskAppetite |-> st.riskAppetite],
     riskApproved |-> "undefined", riskBlockReason |-> ""]

checkExitConditions(position, valid, st, t) ==
    LET sigs == SignalsFor(valid, position.tokenAddress)
        lp == FindType(sigs, "liquidity_pull")
        ex == FindType(sigs, "price_exhaustion")
        stored == st.tokenConvictions[position.tokenAddress]
        tokenConviction == IF stored = Absent \/ stored = 0 THEN Dec(5, 10) ELSE stored
        pnlPct == position.unrealizedPnLPct
    IN IF lp # 0 /\ sigs[lp].urgency > Dec(7, 10)
       THEN createIntent("exit", st, <<sigs[lp]>>, "Liquidity drying up - exit now",
                         position.tokenAddress, Num(100), t)
       ELSE IF pnlPct # NaN /\ pnlPct > Num(10) /\ ex # 0
       THEN createIntent("exit", st, <<sigs[ex]>>, "Taking profit - momentum fading",
                         position.tokenAddress, Num(100), t)
       ELSE IF tokenConviction < Dec(3, 10)
       THEN createIntent("exit", st, sigs, "Lost conviction in this token",
                         position.tokenAddress, Num(100), t)
       ELSE NoIntent

checkReduceConditions(position, valid, st, t) ==
    LET sigs == SignalsFor(valid, position.tokenAddress)
        pnlPct == position.unrealizedPnLPct
    IN IF st.primaryMood = "suspicious" /\ pnlPct # NaN /\ pnlPct > Num(5)
       THEN createIntent("reduce", st, sigs, "Feeling suspicious - taking some off",
                         position.tokenAddress, Num(50), t)
       ELSE NoIntent

calculatePositionSize(st) ==
    Min(Num(20), Mul(Mul(Num(10), st.riskAppetite), st.confidence))

Score(signal) == Mul(Mul(signal.confidence, signal.strength), signal.urgency)

\* the keys of signalsByToken in insertion order
RECURSIVE KeysOf(_, _)
KeysOf(valid, seen) ==
    IF valid = <<>> THEN <<>>
    ELSE IF KeyOf(Head(valid)) \in seen THEN KeysOf(Tail(valid), seen)
    ELSE <<KeyOf(Head(valid))>> \o KeysOf(Tail(valid), seen \cup {KeyOf(Head(valid))})

\* the signals in the order the two nested loops of checkEnterConditions
\* visit them, tokens that hold a position skipped
RECURSIVE Candidates(_, _, _)
Candidates(keys, valid, ps) ==
    IF keys = <<>> THEN <<>>
    ELSE (IF PosIndex(ps, Head(keys)) # 0 THEN <<>> ELSE SignalsFor(valid, Head(keys)))
         \o Candidates(Tail(keys), valid, ps)

\* the index of the first candidate of the highest score, 0 if no score
\* exceeds the initial strongestScore of 0
Strongest(cands) ==
    IF \E i \in DOMAIN cands : Score(cands[i]) > 0
    THEN CHOOSE i \in DOMAIN cands :
           /\ Score(cands[i]) > 0
           /\ \A j \in DOMAIN cands : Score(cands[j]) <= Score(cands[i])
           /\ \A j \in 1..(i - 1) : Score(cands[j]) < Score(cands[i])
    ELSE 0

\* the tail of checkEnterConditions, given the strongest signal found
EnterOn(cands, best, st, t) ==
    LET adjustedThreshold == Mul(Dec(4, 10), Num(2) - st.confidence)
    IN IF best = 0 THEN NoIntent
       ELSE IF Score(cands[best]) < adjustedThreshold THEN NoIntent
       ELSE IF cands[best].type \in {"early_momentum", "volume_surge"}
       THEN createIntent("enter", st, <<cands[best]>>, "entering position",
                         cands[best].tokenAddress, calculatePositionSize(st), t)
       ELSE NoIntent

EnterFrom(cands, st, t) == EnterOn(cands, Strongest(cands), st, t)

\* an entry rule that does not look at the mood
checkEnterConditions_AnyMood(valid, ps, st, t) ==
    EnterFrom(Candidates(KeysOf(valid, {}), valid, ps), st, t)

\* an entry rule that skips no token, as if no position were held
checkEnterConditions_OnHeld(valid, ps, st, t) ==
    IF st.primaryMood \in {"cautious", "regretful"} THEN NoIntent
    ELSE EnterFrom(Candidates(KeysOf(valid, {}), valid, <<>>), st, t)

checkEnterConditions(valid, ps, st, t) ==
    IF st.primaryMood \in {"cautious", "regretful"} THEN NoIntent
    ELSE EnterFrom(Candidates(KeysOf(valid, {}), valid, ps), st, t)

checkAddConditions(position, valid, st, t) ==
    LET sigs == SignalsFor(valid, position.tokenAddress)
        vs == FindType(sigs, "volume_surge")
    IN IF st.confidence < Dec(6, 10) /\ st.primaryMood # "aggressive" THEN NoIntent
       ELSE IF vs # 0 /\ sigs[vs].confidence > Dec(7, 10)
       THEN createIntent("add", st, <<sigs[vs]>>,
                         "Volume confirming - adding to position",
                         position.tokenAddress, Num(25), t)
       ELSE NoIntent

\* r unless it is null, then the next rule's result
OrElse(r, next) == IF r # NoIntent THEN r ELSE next

\* the first non-null result of check over the positions, in order
RECURSIVE FirstIntent(_, _, _, _, _)
FirstIntent(check(_, _, _, _), ps, valid, st, t) ==
    IF ps = <<>> THEN NoIntent
    ELSE OrElse(check(Head(ps), valid, st, t),
                FirstIntent(check, Tail(ps), valid, st, t))

\* a rule chain that tries REDUCE before EXIT
decideOn_ReduceFirst(valid, st, ps, last, t) ==
    IF valid = <<>>
    THEN [intent |-> createIntent("wait", st, <<>>, "No strong signals detected",
                                  "", 0, t),
          lastIntentTime |-> last]
    ELSE [intent |->
            OrElse(FirstIntent(checkReduceConditions, ps, valid, st, t),
            OrElse(FirstIntent(checkExitConditions, ps, valid, st, t),
            OrElse(checkEnterConditions(valid, ps, st, t),
            OrElse(FirstIntent(checkAddConditions, ps, valid, st, t),
                   createIntent("wait", st, valid, "Observing market conditions",
                                "", 0, t))))),
          lastIntentTime |-> t]

\* a decision that returns null when no signal passed the filter
decideOn_NullWithoutSignals(valid, st, ps, last, t) ==
    IF valid = <<>>
    THEN [intent |-> NoIntent, lastIntentTime |-> last]
    ELSE [intent |->
            OrElse(FirstIntent(checkExitConditions, ps, valid, st, t),
            OrElse(FirstIntent(checkReduceConditions, ps, valid, st, t),
            OrElse(checkEnterConditions(valid, ps, st, t),
            OrElse(FirstIntent(checkAddConditions, ps, valid, st, t),
                   createIntent("wait", st, valid, "Observing market conditions",
                                "", 0, t))))),
          lastIntentTime |-> t]

\* decide past the cooldown gate, on the signals that passed the filter
decideOn(valid, st, ps, last, t) ==
    IF valid = <<>>
    THEN [intent |-> createIntent("wait", st, <<>>, "No strong signals detected",
                                  "", 0, t),
          lastIntentTime |-> last]
    ELSE [intent |->
            OrElse(FirstIntent(checkExitConditions, ps, valid, st, t),
            OrElse(FirstIntent(checkReduceConditions, ps, valid, st, t),
            OrElse(checkEnterConditions(valid, ps, st, t),
            OrElse(FirstIntent(checkAddConditions, ps, valid, st, t),
                   createIntent("wait", st, valid, "Observing market conditions",
                                "", 0, t))))),
          lastIntentTime |-> t]

\* decide: the returned intent (NoIntent for null) and the new lastIntentTime
decide(sigs, st, ps, last, t) ==
    IF ~canDecide(last, t) THEN [intent |-> NoIntent, lastIntentTime |-> last]
    ELSE decideOn(SelectSeq(sigs, LAMBDA g : g.confidence >= minSignalConfidence),
                  st, ps, last, t)

\* the arguments of a decide() call; decideInput keeps those of the last call
\* that returned an intent
DecideArgs(sigs, st, ps) == [signals |-> sigs, state |-> st, positions |-> ps]

----------------------------------------------------------------------------
(* Signal detectors.  An event is [type, tokenAddress, timestamp, value]:  *)
(* value is data.multiplier of a volume spike and data.changePercent of a  *)
(* price or liquidity change.  Event ids, sourceEventIds, symbols and      *)
(* descriptions are labels no computation reads; they are left out.        *)

\* the distinct entries of keys in order of first appearance (Map keys)
RECURSIVE Distinct(_, _)
Distinct(keys, seen) ==
    IF keys = <<>> THEN <<>>
    ELSE IF Head(keys) \in seen THEN Distinct(Tail(keys), seen)
    ELSE <<Head(keys)>> \o Distinct(Tail(keys), seen \cup {Head(keys)})

\* results.push(...) once per key, in key order
RECURSIVE FlatMap(_, _)
FlatMap(f(_), keys) ==
    IF keys = <<>> THEN <<>> ELSE f(Head(keys)) \o FlatMap(f, Tail(keys))

EventKey(e, fallback) == IF e.tokenAddress = "" THEN fallback ELSE e.tokenAddress

EventKeys(events, fallback) ==
    Distinct([i \in DOMAIN events |-> EventKey(events[i], fallback)], {})

Result(type, token, confidence, strength, urgency) ==
    [type |-> type, tokenAddress |-> token, confidence |-> confidence,
     strength |-> strength, urgency |-> urgency]

\* the analysis of one token's volume events
SurgeOf(key, volumeEvents, multiplier) ==
    IF Len(volumeEvents) >= 2
    THEN << Result("volume_surge", key,
                   Min(Dec(95, 100), Dec(5, 10) + Mul(multiplier - Num(1), Dec(15, 100))),
                   Min(Num(1), Div(multiplier, Num(5))),
                   IF Len(volumeEvents) > 3 THEN Dec(8, 10) ELSE Dec(5, 10)) >>
    ELSE <<>>

\* (latest.data.multiplier as number) || 1
MultiplierOf(latest) == IF latest.value = 0 THEN Num(1) ELSE latest.value

SurgesIn(vol) ==
    LET group(key) == SelectSeq(vol, LAMBDA e : EventKey(e, "unknown") = key)
        analyse(key) == SurgeOf(key, group(key),
                                MultiplierOf(group(key)[Len(group(key))]))
    IN FlatMap(analyse, EventKeys(vol, "unknown"))

\* a data.multiplier that is not a number (a string of the feed)
Text == NaN + 1

\* multiplier.toFixed(1) throws a TypeError on a multiplier that is not a
\* number: the latest volume event of a token with two or more in the window
SurgeThrows(vol) ==
    \E key \in {EventKey(vol[i], "unknown") : i \in DOMAIN vol} :
       LET group == SelectSeq(vol, LAMBDA e : EventKey(e, "unknown") = key)
       IN Len(group) >= 2 /\ group[Len(group)].value = Text

detectVolumeSurgeThrows(events, t) ==
    SurgeThrows(SelectSeq(events,
                  LAMBDA e : e.type = "volume_spike" /\ e.timestamp > t - windowSizeMs))

detectVolumeSurge(events, t) ==
    SurgesIn(SelectSeq(events,
               LAMBDA e : e.type = "volume_spike" /\ e.timestamp > t - windowSizeMs))

\* the analysis of one token's price and volume events
MomentumOf(key, priceEvents, volumeEvents) ==
    IF /\ priceEvents # <<>>
       /\ volumeEvents # <<>>
       /\ priceEvents[Len(priceEvents)].value > Num(5)
    THEN << Result("early_momentum", key, Dec(6, 10),
                   Min(Num(1), Div(Abs(priceEvents[Len(priceEvents)].value), Num(20))),
                   Dec(7, 10)) >>
    ELSE <<>>

MomentumIn(recent) ==
    LET analyse(key) ==
          MomentumOf(key,
            SelectSeq(recent, LAMBDA e : e.tokenAddress = key /\ e.type = "price_change"),
            SelectSeq(recent, LAMBDA e : e.tokenAddress = key /\ e.type = "volume_spike"))
    IN FlatMap(analyse, EventKeys(recent, ""))

detectEarlyMomentum(events, t) ==
    MomentumIn(SelectSeq(events,
                 LAMBDA e : e.timestamp > t - windowSizeMs /\ e.tokenAddress # ""))

PullsIn(liq) ==
    [i \in DOMAIN liq |->
       Result("liquidity_pull", liq[i].tokenAddress, Dec(75, 100),
              Min(Num(1), Div(Abs(liq[i].value), Num(30))),
              IF liq[i].value < -Num(30) THEN Dec(9, 10) ELSE Dec(6, 10))]

detectLiquidityPull(events, t) ==
    PullsIn(SelectSeq(events,
              LAMBDA e : /\ e.type = "liquidity_change"
                         /\ e.timestamp > t - windowSizeMs
                         /\ e.value < -Num(15)))

\* Array.prototype.sort by timestamp: a stable insertion sort
RECURSIVE SortByTimestamp(_)
SortByTimestamp(events) ==
    IF events = <<>> THEN <<>>
    ELSE LET e == Head(events)
             insert(rest) ==
               SelectSeq(rest, LAMBDA x : x.timestamp < e.timestamp) \o <<e>>
               \o SelectSeq(rest, LAMBDA x : x.timestamp >= e.timestamp)
         IN insert(SortByTimestamp(Tail(events)))

\* the analysis of one token's price events, sorted by time
ExhaustionOf(key, sorted, n) ==
    IF /\ n >= 3
       /\ Div(sorted[n - 2].value + sorted[n - 1].value + sorted[n].value, Num(3))
            < Num(2)
       /\ \E i \in 1..(n - 3) : sorted[i].value > Num(10)
    THEN << Result("price_exhaustion", key, Dec(55, 100), Dec(6, 10), Dec(4, 10)) >>
    ELSE <<>>

ExhaustionIn(prices) ==
    LET group(key) == SelectSeq(prices, LAMBDA e : e.tokenAddress = key)
        analyse(key) == ExhaustionOf(key, SortByTimestamp(group(key)), Len(group(key)))
    IN FlatMap(analyse, EventKeys(prices, ""))

detectPriceExhaustion(events, t) ==
    ExhaustionIn(SelectSeq(events,
                   LAMBDA e : /\ e.type = "price_change"
                              /\ e.timestamp > t - windowSizeMs
                              /\ e.tokenAddress # ""))

detectDormancy(events, allTokens, t) ==
    LET cutoff == t - windowSizeMs
        activeTokens == {events[i].tokenAddress : i \in
                           {j \in DOMAIN events : /\ events[j].timestamp > cutoff
                                                  /\ events[j].tokenAddress # ""}}
        dormant == SelectSeq(allTokens, LAMBDA a : a \notin activeTokens)
    IN [i \in DOMAIN dormant |->
          Result("dormancy", dormant[i], Dec(7, 10), Dec(5, 10), Dec(2, 10))]

HypeIn(socialEvents) ==
    LET count(key) ==
          Len(SelectSeq(socialEvents, LAMBDA e : EventKey(e, "general") = key))
        analyse(key) ==
          IF count(key) >= 2
          THEN << Result("hype_burst", IF key # "general" THEN key ELSE "",
                         Dec(5, 10), Min(Num(1), Div(Num(count(key)), Num(5))),
                         Dec(65, 100)) >>
          ELSE <<>>
    IN FlatMap(analyse, EventKeys(socialEvents, "general"))

detectHypeBurst(events, t) ==
    HypeIn(SelectSeq(events,
             LAMBDA e : /\ e.type \in {"mention_spike", "sentiment_shift"}
                        /\ e.timestamp > t - windowSizeMs))

runAllDetectors(events, trackedTokens, t) ==
    detectVolumeSurge(events, t) \o detectEarlyMomentum(events, t)
    \o detectLiquidityPull(events, t) \o detectPriceExhaustion(events, t)
    \o detectHypeBurst(events, t) \o detectDormancy(events, trackedTokens, t)

----------------------------------------------------------------------------
(* Signal Layer                                                            *)

SignalLayer == [activeSignals |-> activeSignals, eventWindow |-> eventWindow,
                signalIdCounter |-> signalIdCounter]

\* a search that never finds the listed signal
FindExisting_Never(list, result, t) == 0

\* activeSignals.find(...): the index of the live signal a result matches
FindExisting(list, result, t) ==
    LET hit(i) == /\ list[i].type = result.type
                  /\ list[i].tokenAddress = result.tokenAddress
                  /\ list[i].expiresAt > t
    IN IF \E i \in DOMAIN list : hit(i)
       THEN CHOOSE i \in DOMAIN list : hit(i) /\ \A j \in 1..(i - 1) : ~hit(j)
       ELSE 0

\* the loop iteration with a reinforcement that has no cap
AbsorbAt_Uncapped(acc, result, existing, t) ==
    IF existing # 0
    THEN [acc EXCEPT
            !.activeSignals[existing].confidence = @ + Dec(1, 10),
            !.activeSignals[existing].strength = Max(@, result.strength),
            !.activeSignals[existing].expiresAt = t + decayHalfLifeMs * 3]
    ELSE [activeSignals |->
            Append(acc.activeSignals,
                   [id |-> acc.signalIdCounter, timestamp |-> t,
                    type |-> result.type, tokenAddress |-> result.tokenAddress,
                    confidence |-> result.confidence,
                    strength |-> result.strength, urgency |-> result.urgency,
                    expiresAt |-> t + decayHalfLifeMs * 3,
                    decayRate |-> Dec(5, 10)]),
          signalIdCounter |-> acc.signalIdCounter + 1,
          created |-> acc.created \cup {acc.signalIdCounter}]

\* one iteration of the loop over the detector results, existing being
\* what the search for a similar signal found
AbsorbAt(acc, result, existing, t) ==
    IF existing # 0
    THEN [acc EXCEPT
            !.activeSignals[existing].confidence = Min(Dec(99, 100), @ + Dec(1, 10)),
            !.activeSignals[existing].strength = Max(@, result.strength),
            !.activeSignals[existing].expiresAt = t + decayHalfLifeMs * 3]
    ELSE [activeSignals |->
            Append(acc.activeSignals,
                   [id |-> acc.signalIdCounter, timestamp |-> t,
                    type |-> result.type, tokenAddress |-> result.tokenAddress,
                    confidence |-> result.confidence,
                    strength |-> result.strength, urgency |-> result.urgency,
                    expiresAt |-> t + decayHalfLifeMs * 3,
                    decayRate |-> Dec(5, 10)]),
          signalIdCounter |-> acc.signalIdCounter + 1,
          created |-> acc.created \cup {acc.signalIdCounter}]

Absorb(acc, result, t) ==
    IF result.confidence < minConfidence THEN acc
    ELSE AbsorbAt(acc, result, FindExisting(acc.activeSignals, result, t), t)

RECURSIVE AbsorbAll(_, _, _)
AbsorbAll(acc, results, t) ==
    IF results = <<>> THEN acc
    ELSE AbsorbAll(Absorb(acc, Head(results), t), Tail(results), t)

\* the layer and the returned newSignals once the loop is over
Processed(acc, window) ==
    [activeSignals |-> acc.activeSignals,
     eventWindow |-> window,
     signalIdCounter |-> acc.signalIdCounter,
     newSignals |-> SelectSeq(acc.activeSignals, LAMBDA g : g.id \in acc.created)]

\* processEvents left by the exception of a detector: the window is already
\* assigned, the loop over the results is never reached, nothing is returned
Thrown(layer, window) ==
    [activeSignals |-> layer.activeSignals,
     eventWindow |-> window,
     signalIdCounter |-> layer.signalIdCounter,
     newSignals |-> <<>>]

\* processEvents from the trimmed window on
processWindow(layer, window, trackedTokens, t) ==
    IF detectVolumeSurgeThrows(window, t) THEN Thrown(layer, window)
    ELSE
    Processed(AbsorbAll([activeSignals |-> layer.activeSignals,
                         signalIdCounter |-> layer.signalIdCounter,
                         created |-> {}],
                        runAllDetectors(window, trackedTokens, t), t),
              window)

\* processEvents: the layer afterwards and the returned newSignals
processEvents(layer, events, trackedTokens, t) ==
    processWindow(layer,
                  SelectSeq(layer.eventWindow \o events,
                            LAMBDA e : e.timestamp > t - windowSizeMs),
                  trackedTokens, t)

\* Math.pow(0.5, k / 2), k the age in half steps
RECURSIVE PowHalf(_)
PowHalf(k) ==
    IF k = 0 THEN Scale
    ELSE IF k = 1 THEN Dec(7071, 10000)
    ELSE (PowHalf(k - 2) + 1) \div 2

\* Math.pow(signal.decayRate, age / decayHalfLifeMs); decayRate is always 0.5
DecayFactor(age) == PowHalf(age \div HalfStep)

\* one iteration of the decay loop: c is the decayed confidence
Decayed(signal, c, t) ==
    [signal EXCEPT !.confidence = c,
                   !.expiresAt = IF c < minConfidence THEN t - 1 ELSE @]

DecayAll(live, t) ==
    [i \in DOMAIN live |->
       Decayed(live[i], Mul(live[i].confidence, DecayFactor(t - live[i].timestamp)), t)]

\* an update that returns the decayed list without the final filter
updateSignals_Unfiltered(list, t) ==
    DecayAll(SelectSeq(list, LAMBDA g : g.expiresAt > t), t)

updateSignals(list, t) ==
    SelectSeq(DecayAll(SelectSeq(list, LAMBDA g : g.expiresAt > t), t),
              LAMBDA g : g.expiresAt > t /\ g.confidence >= minConfidence)

----------------------------------------------------------------------------
(* Initial state: the objects as their constructors leave them.            *)

InitPrices == {Num(1), Num(2)}

\* what the latest tick did: the state snapshot it decided on, the intent as
\* decide returned it, the intent as the tick left it, the risk verdict, and
\* the intent handed to execute
NoTick == [agentState |-> InitialState, decided |-> NoIntent, intent |-> NoIntent,
           riskCheck |-> NoCheck, executed |-> FALSE, sent |-> NoIntent]

\* the state after construction, for the given configurations
Setup(slippages, configs, prices) ==
    /\ now = StartTime
    /\ capital = initialCapital
    /\ positions = <<>>
    /\ mockPrices \in prices
    /\ tradeHistory = 0
    /\ slippagePct \in slippages
    /\ lastTrade = NoTrade
    /\ dailyTrades = 0
    /\ dailyPnL = 0
    /\ riskConfig \in configs
    /\ lastCheck = [intent |-> NoIntent, positions |-> <<>>, capital |-> 0,
                    dailyTrades |-> 0,
                    result |-> NoCheck]
    /\ state = InitialState
    /\ lastIntentTime = 0
    /\ lastIntent = NoIntent
    /\ decideResult = NoIntent
    /\ decideInput = DecideArgs(<<>>, InitialState, <<>>)
    /\ decided = 0
    /\ activeSignals = <<>>
    /\ eventWindow = <<>>
    /\ signalIdCounter = 0
    /\ newSignals = <<>>
    /\ observed = [at |-> 0, signals |-> <<>>]
    /\ cycle = 0
    /\ lastPerceptionPoll = 0
    /\ tickLog = NoTick
    /\ running = FALSE
    /\ loops = <<>>
    /\ stops = <<>>
    /\ exited = FALSE
    /\ held = [object |-> Scalars(InitialState), taken |-> FALSE]

RiskConfigs ==
    [maxPositionSizePct : {maxPositionSizePct, Num(1)},
     maxDailyLossPct : {Num(20), Dec(1, 10)},
     maxTotalExposurePct : {maxTotalExposurePct},
     dailyTradeLimit : {Absent, DailyLimit}]

\* the configurations above, one whose loss limit the day's PnL of 0 meets
\* and one with DAILY_TRADE_LIMIT=0
GuardConfigs ==
    RiskConfigs \cup {[DefaultRiskConfig EXCEPT !.maxDailyLossPct = 0],
                      [DefaultRiskConfig EXCEPT !.dailyTradeLimit = 0]}

UnitPrices == { [a \in Tokens |-> Num(1)] }

Init == Setup({0, Num(5)}, RiskConfigs, [Tokens -> InitPrices])

\* default configuration, zero slippage, every price 1
InitDefault == Setup({0}, {DefaultRiskConfig}, UnitPrices)

----------------------------------------------------------------------------
(* Simulator operations called directly (unit-level harness).              *)

Sizes == {0, Num(10), Num(50), Num(100), Num(150)}
Changes == {-Dec(1, 100), 0, Dec(1, 200)}
SetPrices == {Dec(12, 10), Dec(5, 10)}

SimIntent(type, token, size) ==
    [NoIntent EXCEPT !.type = type, !.tokenAddress = token, !.sizePct = size]

ApplySim(r) ==
    /\ capital' = r.capital
    /\ positions' = r.positions
    /\ mockPrices' = r.mockPrices
    /\ tradeHistory' = r.tradeHistory
    /\ lastTrade' = r.result

Execute(type, token, size, change) ==
    /\ tradeHistory < MaxOps
    /\ ApplySim(execute(Sim, SimIntent(type, token, size), change))
    /\ UNCHANGED <<now, slippagePct, riskVars, state, decisionVars, signalVars, orchVars>>

SetMockPrice(token, price) ==
    /\ mockPrices' = [mockPrices EXCEPT ![token] = price]
    /\ UNCHANGED <<now, capital, positions, tradeHistory, slippagePct, lastTrade,
                   riskVars, state, decisionVars, signalVars, orchVars>>

\* a PnL percentage taken over the current price
updatePosition_OverCurrent(p, prices) ==
    LET currentPrice == prices[p.tokenAddress]
    IN IF currentPrice # 0
       THEN [p EXCEPT
               !.currentPrice = currentPrice,
               !.unrealizedPnL =
                   Mul(Add(currentPrice, Neg(p.averageEntryPrice)), p.amount),
               !.unrealizedPnLPct =
                   Mul(Div(Add(currentPrice, Neg(p.averageEntryPrice)),
                           currentPrice), Num(100))]
       ELSE p

\* updatePositions(prices): prices[t] = 0 stands for a token absent from the map
updatePosition(p, prices) ==
    LET currentPrice == prices[p.tokenAddress]
    IN IF currentPrice # 0
       THEN [p EXCEPT
               !.currentPrice = currentPrice,
               !.unrealizedPnL =
                   Mul(Add(currentPrice, Neg(p.averageEntryPrice)), p.amount),
               !.unrealizedPnLPct =
                   Mul(Div(Add(currentPrice, Neg(p.averageEntryPrice)),
                           p.averageEntryPrice), Num(100))]
       ELSE p

UpdatePositions(prices) ==
    /\ positions # <<>>
    /\ positions' = [i \in DOMAIN positions |-> updatePosition(positions[i], prices)]
    /\ UNCHANGED <<now, capital, mockPrices, tradeHistory, slippagePct, lastTrade,
                   riskVars, state, decisionVars, signalVars, orchVars>>

SimSizes == {0, Num(10), Num(150)}
SimChanges == {-Dec(1, 100), 0}

SimNext ==
    \/ /\ tradeHistory < MaxBook
       /\ \E type \in {"enter", "exit", "add", "reduce", "wait"},
             token \in Tokens \cup {""}, size \in SimSizes, change \in SimChanges :
               Execute(type, token, size, change)
    \/ \E token \in Tokens, price \in SetPrices :
         tradeHistory < MaxBook /\ SetMockPrice(token, price)
    \/ \E prices \in [Tokens -> SetPrices \cup {0}] : UpdatePositions(prices)

SpecSim == Setup({0, Num(5)}, {DefaultRiskConfig}, UnitPrices) /\ [][SimNext]_vars

\* the conservation setting: zero slippage, prices never move
ConserveNext ==
    \E type \in {"enter", "exit", "add", "reduce"},
       token \in Tokens \cup {""}, size \in Sizes :
         Execute(type, token, size, 0)

SpecConserve ==
    Setup({0}, {DefaultRiskConfig}, [Tokens -> InitPrices]) /\ [][ConserveNext]_vars

\* intents of every executable type with a size in (0, 100], at prices that
\* stay positive, with 5% slippage
SolventSizes == {Num(50), Num(100)}

SolventNext ==
    \E type \in {"enter", "exit", "add", "reduce"}, token \in Tokens,
       size \in SolventSizes, change \in SimChanges :
         Execute(type, token, size, change)

SpecSolvent == Setup({Num(5)}, {DefaultRiskConfig}, UnitPrices) /\ [][SolventNext]_vars

----------------------------------------------------------------------------
(* Guardrail operations called directly, against the simulator's book.     *)

CheckSizes == {0, Num(5), Num(15)}

CheckIntent(type, token, size) ==
    LET intent == SimIntent(type, token, size)
    IN /\ lastCheck' = [intent |-> intent, positions |-> positions,
                        dailyTrades |-> dailyTrades,
                        capital |-> capital,
                        result |-> checkIntent(Risk, intent, positions, capital)]
       /\ UNCHANGED <<now, simVars, dailyTrades, dailyPnL, riskConfig, state,
                      decisionVars, signalVars, orchVars>>

\* a recordTrade that books a loss of 1% for the trade it records
RecordTrade_BooksLoss ==
    /\ lastTrade # NoTrade
    /\ dailyTrades < MaxTrades
    /\ dailyTrades' = dailyTrades + 1
    /\ dailyPnL' = dailyPnL - Num(1)
    /\ UNCHANGED <<now, simVars, riskConfig, lastCheck, state,
                   decisionVars, signalVars, orchVars>>

\* recordTrade: the ledger grows; the PnL update is a TODO in the code
RecordTrade ==
    /\ lastTrade # NoTrade
    /\ dailyTrades < MaxTrades
    /\ dailyTrades' = dailyTrades + 1
    /\ UNCHANGED <<now, simVars, dailyPnL, riskConfig, lastCheck, state,
                   decisionVars, signalVars, orchVars>>

ResetDaily ==
    /\ dailyTrades' = 0
    /\ dailyPnL' = 0
    /\ UNCHANGED <<now, simVars, riskConfig, lastCheck, state,
                   decisionVars, signalVars, orchVars>>

RiskNext ==
    \/ \E type \in {"enter", "add", "reduce", "exit", "wait", "watch"},
          token \in Tokens, size \in CheckSizes : CheckIntent(type, token, size)
    \/ RecordTrade
    \/ ResetDaily
    \/ /\ tradeHistory < MaxBook
       /\ \E type \in {"enter", "exit"}, token \in Tokens, size \in {Num(10), Num(50)} :
            Execute(type, token, size, 0)

SpecRisk == Setup({0}, GuardConfigs, UnitPrices) /\ [][RiskNext]_vars

----------------------------------------------------------------------------
(* Signal Layer operations called directly.                                *)

Ev(type, token, value) ==
    [type |-> type, tokenAddress |-> token, timestamp |-> now, value |-> value]

\* what one poll of the perception layer may deliver
Batches ==
    UNION {{ << Ev("volume_spike", a, Num(5)), Ev("volume_spike", a, Num(5)),
                Ev("volume_spike", a, Num(5)), Ev("volume_spike", a, Num(5)) >>,
             << Ev("volume_spike", a, Num(2)), Ev("price_change", a, Num(8)) >>,
             << Ev("liquidity_change", a, -Num(40)) >>,
             << Ev("price_change", a, Num(12)), Ev("price_change", a, Num(1)),
                Ev("price_change", a, Num(1)), Ev("price_change", a, Num(1)) >> }
           : a \in Tokens}
    \cup { << Ev("mention_spike", "", 0), Ev("sentiment_shift", "", 0) >>,
           << Ev("volume_spike", "", Num(3)), Ev("volume_spike", "", Num(3)) >> }

Tracked == { <<>>, <<"T1", "T2">> }

ApplySignals(r) ==
    /\ activeSignals' = r.activeSignals
    /\ eventWindow' = r.eventWindow
    /\ signalIdCounter' = r.signalIdCounter
    /\ newSignals' = r.newSignals

ProcessEvents(events, trackedTokens) ==
    /\ Len(eventWindow) + Len(events) <= MaxWindow
    /\ signalIdCounter < MaxSignals
    /\ \A i \in DOMAIN eventWindow : eventWindow[i].timestamp < now
    /\ ApplySignals(processEvents(SignalLayer, events, trackedTokens, now))
    /\ UNCHANGED <<now, simVars, riskVars, state, decisionVars, observed, orchVars>>

UpdateSignals ==
    /\ activeSignals' = updateSignals(activeSignals, now)
    /\ observed' = [at |-> now, signals |-> activeSignals']
    /\ UNCHANGED <<now, simVars, riskVars, state, decisionVars, eventWindow,
                   signalIdCounter, newSignals, orchVars>>

AdvanceHalf ==
    /\ now < StartTime + MaxAdvance * HalfStep
    /\ now' = now + HalfStep
    /\ UNCHANGED <<simVars, riskVars, state, decisionVars, signalVars, orchVars>>

SignalsNext ==
    \/ \E events \in Batches, trackedTokens \in Tracked :
         ProcessEvents(events, trackedTokens)
    \/ UpdateSignals
    \/ AdvanceHalf

SpecSignals == InitDefault /\ [][SignalsNext]_vars

\* polls whose volume events carry a multiplier that is not a number, below
\* one or negative, beside polls that are well formed
FaultyBatches ==
    UNION {{ << Ev("volume_spike", a, Text), Ev("volume_spike", a, Text),
                Ev("liquidity_change", a, -Num(40)) >>,
             << Ev("liquidity_change", a, -Num(40)) >>,
             << Ev("volume_spike", a, Num(5)), Ev("volume_spike", a, Num(5)) >>,
             << Ev("volume_spike", a, Dec(5, 10)), Ev("volume_spike", a, Dec(5, 10)) >>,
             << Ev("volume_spike", a, -Dec(3, 10)), Ev("volume_spike", a, -Dec(3, 10)) >>,
             << Ev("volume_spike", a, -Num(10)), Ev("volume_spike", a, -Num(10)) >> }
           : a \in Tokens}

FaultyNext ==
    \/ \E events \in FaultyBatches : ProcessEvents(events, <<>>)
    \/ UpdateSignals
    \/ AdvanceHalf

SpecFaulty == InitDefault /\ [][FaultyNext]_vars

\* one processEvents call on the fresh layer, then only decay
DecayNext ==
    \/ /\ signalIdCounter = 0
       /\ eventWindow = <<>>
       /\ \E events \in Batches, trackedTokens \in Tracked :
            ProcessEvents(events, trackedTokens)
    \/ UpdateSignals
    \/ AdvanceHalf

SpecDecay == InitDefault /\ [][DecayNext]_vars

----------------------------------------------------------------------------
(* State Layer called directly: one call per instant, trade outcomes in    *)
(* the first MaxDays days, idle ticks afterwards.                          *)

DayMs == 86400000

\* a filled trade, a fill of nothing and a failed trade
TradeOutcomes ==
    { [NoTrade EXCEPT !.status = "filled", !.filledAmount = Num(10), !.price = Num(1)],
      [NoTrade EXCEPT !.status = "filled"],
      [NoTrade EXCEPT !.status = "filled", !.filledAmount = Num(10), !.price = Num(1),
                      !.error = "confirmation timed out"],
      [NoTrade EXCEPT !.status = "failed", !.error = "No position to exit"] }

StateTick ==
    /\ state.timestamp < now
    /\ state' = stateTick(state, now)
    /\ UNCHANGED <<now, simVars, riskVars, decisionVars, signalVars, orchVars>>

UpdateFromTrade(trade) ==
    /\ state.timestamp < now
    /\ now <= StartTime + MaxDays * DayMs
    /\ state' = updateFromTrade(state, trade, now)
    /\ lastTrade' = trade
    /\ UNCHANGED <<now, capital, positions, mockPrices, tradeHistory, slippagePct,
                   riskVars, decisionVars, signalVars, orchVars>>

AdvanceState ==
    /\ state.timestamp = now
    /\ now < StartTime + MaxDays * DayMs + MaxIdle * HalfStep
    /\ now' = IF now < StartTime + MaxDays * DayMs THEN now + DayMs ELSE now + HalfStep
    /\ UNCHANGED <<simVars, riskVars, state, decisionVars, signalVars, orchVars>>

StateNext ==
    \/ StateTick
    \/ \E trade \in TradeOutcomes : UpdateFromTrade(trade)
    \/ AdvanceState

SpecState == InitDefault /\ [][StateNext]_vars

----------------------------------------------------------------------------
(* Decision Engine called directly.                                        *)

Sig(id, type, token, confidence, strength, urgency) ==
    [id |-> id, timestamp |-> now, type |-> type, tokenAddress |-> token,
     confidence |-> confidence, strength |-> strength, urgency |-> urgency,
     expiresAt |-> now + decayHalfLifeMs * 3, decayRate |-> Dec(5, 10)]

SignalInputs ==
    { <<>>,
      << Sig(0, "dormancy", "T1", Dec(4, 10), Dec(5, 10), Dec(2, 10)) >>,
      << Sig(0, "volume_surge", "T1", Dec(95, 100), Num(1), Dec(8, 10)) >>,
      << Sig(0, "liquidity_pull", "T1", Dec(75, 100), Num(1), Dec(9, 10)) >>,
      << Sig(0, "volume_surge", "T1", Dec(95, 100), Num(1), Dec(8, 10)),
         Sig(1, "liquidity_pull", "T1", Dec(75, 100), Num(1), Dec(9, 10)) >>,
      << Sig(0, "price_exhaustion", "T1", Dec(55, 100), Dec(6, 10), Dec(4, 10)),
         Sig(1, "volume_surge", "T2", Dec(95, 100), Num(1), Dec(8, 10)) >>,
      << Sig(0, "hype_burst", "", Dec(5, 10), Dec(4, 10), Dec(65, 100)) >> }

Held(token, pnlPct) ==
    [tokenAddress |-> token, amount |-> Num(10), averageEntryPrice |-> Num(1),
     currentPrice |-> Num(1) + pnlPct \div 100,
     unrealizedPnL |-> pnlPct \div 10, unrealizedPnLPct |-> pnlPct]

PositionInputs == { <<>>, << Held("T1", 0) >>, << Held("T1", Num(20)) >> }

\* agent states the State Layer can produce, one per mood the engine reads
StateInputs ==
    { InitialState,
      updateMood([InitialState EXCEPT !.confidence = Dec(3, 10)]),
      updateMood([InitialState EXCEPT !.suspicion = Dec(7, 10)]),
      updateMood([InitialState EXCEPT !.regret = Dec(7, 10)]),
      updateMood([InitialState EXCEPT !.confidence = Dec(8, 10),
                                      !.conviction = Dec(7, 10)]) }

ApplyDecision(r, args) ==
    /\ lastIntentTime' = r.lastIntentTime
    /\ decideResult' = r.intent
    /\ lastIntent' = IF r.intent # NoIntent THEN r.intent ELSE lastIntent
    /\ decided' = IF r.intent # NoIntent THEN decided + 1 ELSE decided
    /\ decideInput' = IF r.intent # NoIntent THEN args ELSE decideInput

Decide(sigs, st, ps) ==
    /\ decided < MaxDecisions
    /\ ApplyDecision(decide(sigs, st, ps, lastIntentTime, now), DecideArgs(sigs, st, ps))
    /\ UNCHANGED <<now, simVars, riskVars, state, signalVars, orchVars>>

AdvanceCooldown ==
    /\ now < StartTime + MaxAdvance * CooldownStep
    /\ now' = now + CooldownStep
    /\ UNCHANGED <<simVars, riskVars, state, decisionVars, signalVars, orchVars>>

DecisionNext ==
    \/ \E sigs \in SignalInputs, st \in StateInputs, ps \in PositionInputs :
         Decide(sigs, st, ps)
    \/ AdvanceCooldown

SpecDecision == InitDefault /\ [][DecisionNext]_vars

----------------------------------------------------------------------------
(* Orchestrator                                                            *)

\* perception.poll() and getTrackedTokenAddresses(): what the tick perceives
Polls == { <<>> } \cup
    UNION {{ << Ev("volume_spike", a, Num(5)), Ev("volume_spike", a, Num(5)),
                Ev("volume_spike", a, Num(5)), Ev("volume_spike", a, Num(5)) >>,
             << Ev("liquidity_change", a, -Num(40)) >> } : a \in Tokens}

\* a tick that executes the intent whatever the verdict
TickExecute_Unchecked(layer, active, ticked, d, riskCheck, sized, ex) ==
    LET intent == d.intent
        approved == intent # NoIntent /\ riskCheck.approved
        trades == intent # NoIntent /\ intent.type \notin {"wait", "watch"}
    IN /\ cycle' = cycle + 1
       /\ eventWindow' = layer.eventWindow
       /\ signalIdCounter' = layer.signalIdCounter
       /\ newSignals' = layer.newSignals
       \* updateDashboard calls updateSignals() once more
       /\ activeSignals' = updateSignals(active, now)
       /\ observed' = [at |-> now, signals |-> activeSignals']
       /\ ApplyDecision(d, DecideArgs(active, getState(ticked), positions))
       /\ lastCheck' = IF intent # NoIntent
                       THEN [intent |-> intent, positions |-> positions,
                             dailyTrades |-> dailyTrades,
                             capital |-> capital, result |-> riskCheck]
                       ELSE lastCheck
       /\ IF trades
          THEN /\ ApplySim(ex)
               /\ dailyTrades' = dailyTrades + 1
               /\ state' = updateFromTrade(ticked, ex.result, now)
          ELSE /\ UNCHANGED <<capital, positions, mockPrices, tradeHistory, lastTrade,
                              dailyTrades>>
               /\ state' = ticked
       /\ tickLog' = [agentState |-> getState(ticked), decided |-> intent,
                      intent |-> IF intent = NoIntent THEN NoIntent
                                 ELSE IF approved THEN sized
                                 ELSE [intent EXCEPT
                                         !.riskApproved = "false",
                                         !.riskBlockReason = riskCheck.reason],
                      riskCheck |-> riskCheck, executed |-> trades,
                      sent |-> IF trades THEN sized ELSE NoIntent]
       /\ UNCHANGED <<now, slippagePct, dailyPnL, riskConfig, loopVars, held>>

\* a tick that executes the intent without calling risk.recordTrade
TickExecute_Unrecorded(layer, active, ticked, d, riskCheck, sized, ex) ==
    LET intent == d.intent
        approved == intent # NoIntent /\ riskCheck.approved
        trades == approved /\ intent.type \notin {"wait", "watch"}
    IN /\ cycle' = cycle + 1
       /\ eventWindow' = layer.eventWindow
       /\ signalIdCounter' = layer.signalIdCounter
       /\ newSignals' = layer.newSignals
       \* updateDashboard calls updateSignals() once more
       /\ activeSignals' = updateSignals(active, now)
       /\ observed' = [at |-> now, signals |-> activeSignals']
       /\ ApplyDecision(d, DecideArgs(active, getState(ticked), positions))
       /\ lastCheck' = IF intent # NoIntent
                       THEN [intent |-> intent, positions |-> positions,
                             dailyTrades |-> dailyTrades,
                             capital |-> capital, result |-> riskCheck]
                       ELSE lastCheck
       /\ IF trades
          THEN /\ ApplySim(ex)
               /\ dailyTrades' = dailyTrades
               /\ state' = updateFromTrade(ticked, ex.result, now)
          ELSE /\ UNCHANGED <<capital, positions, mockPrices, tradeHistory, lastTrade,
                              dailyTrades>>
               /\ state' = ticked
       /\ tickLog' = [agentState |-> getState(ticked), decided |-> intent,
                      intent |-> IF intent = NoIntent THEN NoIntent
                                 ELSE IF approved THEN sized
                                 ELSE [intent EXCEPT
                                         !.riskApproved = "false",
                                         !.riskBlockReason = riskCheck.reason],
                      riskCheck |-> riskCheck, executed |-> trades,
                      sent |-> IF trades THEN sized ELSE NoIntent]
       /\ UNCHANGED <<now, slippagePct, dailyPnL, riskConfig, loopVars, held>>

\* steps 5 to 10 of the tick: the verdict applied, the trade executed and
\* recorded, the dashboard refreshed
TickExecute(layer, active, ticked, d, riskCheck, sized, ex) ==
    LET intent == d.intent
        approved == intent # NoIntent /\ riskCheck.approved
        trades == approved /\ intent.type \notin {"wait", "watch"}
    IN /\ cycle' = cycle + 1
       /\ eventWindow' = layer.eventWindow
       /\ signalIdCounter' = layer.signalIdCounter
       /\ newSignals' = layer.newSignals
       \* updateDashboard calls updateSignals() once more
       /\ activeSignals' = updateSignals(active, now)
       /\ observed' = [at |-> now, signals |-> activeSignals']
       /\ ApplyDecision(d, DecideArgs(active, getState(ticked), positions))
       /\ lastCheck' = IF intent # NoIntent
                       THEN [intent |-> intent, positions |-> positions,
                             dailyTrades |-> dailyTrades,
                             capital |-> capital, result |-> riskCheck]
                       ELSE lastCheck
       /\ IF trades
          THEN /\ ApplySim(ex)
               /\ dailyTrades' = dailyTrades + 1
               /\ state' = updateFromTrade(ticked, ex.result, now)
          ELSE /\ UNCHANGED <<capital, positions, mockPrices, tradeHistory, lastTrade,
                              dailyTrades>>
               /\ state' = ticked
       /\ tickLog' = [agentState |-> getState(ticked), decided |-> intent,
                      intent |-> IF intent = NoIntent THEN NoIntent
                                 ELSE IF approved THEN sized
                                 ELSE [intent EXCEPT
                                         !.riskApproved = "false",
                                         !.riskBlockReason = riskCheck.reason],
                      riskCheck |-> riskCheck, executed |-> trades,
                      sent |-> IF trades THEN sized ELSE NoIntent]
       /\ UNCHANGED <<now, slippagePct, dailyPnL, riskConfig, loopVars, held>>

\* an approval that copies adjustedSizePct whether or not there is one
Sized_Unconditional(intent, riskCheck) ==
    [intent EXCEPT !.riskApproved = "true", !.sizePct = riskCheck.adjustedSizePct]

\* the intent as an approving verdict leaves it
Sized(intent, riskCheck) ==
    IF riskCheck.adjustedSizePct # 0
    THEN [intent EXCEPT !.riskApproved = "true", !.sizePct = riskCheck.adjustedSizePct]
    ELSE [intent EXCEPT !.riskApproved = "true"]

TickSized(layer, active, ticked, d, riskCheck, sized, change) ==
    TickExecute(layer, active, ticked, d, riskCheck, sized, execute(Sim, sized, change))

TickRisk(layer, active, ticked, d, riskCheck, change) ==
    TickSized(layer, active, ticked, d, riskCheck, Sized(d.intent, riskCheck), change)

TickDecide(layer, active, ticked, d, change) ==
    TickRisk(layer, active, ticked, d,
             IF d.intent # NoIntent
             THEN checkIntent(Risk, d.intent, positions, capital)
             ELSE NoCheck,
             change)

TickState(layer, active, ticked, change) ==
    TickDecide(layer, active, ticked,
               decide(active, getState(ticked), positions, lastIntentTime, now), change)

TickSignals(layer, change) ==
    TickState(layer, updateSignals(layer.activeSignals, now), stateTick(state, now),
              change)

\* one cycle of the main loop; events is what a poll would deliver
Tick(events, trackedTokens, change) ==
    LET polls == now - lastPerceptionPoll >= perceptionPollMs
    IN /\ cycle < MaxCycles
       /\ lastPerceptionPoll' = IF polls THEN now ELSE lastPerceptionPoll
       /\ TickSignals(IF polls /\ events # <<>>
                      THEN processEvents(SignalLayer, events, trackedTokens, now)
                      ELSE [activeSignals |-> activeSignals,
                            eventWindow |-> eventWindow,
                            signalIdCounter |-> signalIdCounter,
                            newSignals |-> newSignals],
                      change)

SetMode(mode) ==
    /\ state' = setMode(state, mode, now)
    /\ UNCHANGED <<now, simVars, riskVars, decisionVars, signalVars, orchVars>>

pauseTrading == SetMode("paused")

resumeTrading == SetMode("observing")

setSafeMode(enabled) == IF enabled THEN SetMode("safe_mode") ELSE SetMode("observing")

\* sleep(tickIntervalMs): the clock moves on between two cycles of the loop
Sleep ==
    /\ (now - StartTime) \div HalfStep < cycle
    /\ now' = now + HalfStep
    /\ UNCHANGED <<simVars, riskVars, state, decisionVars, signalVars, orchVars>>

PipelineNext ==
    \/ \E events \in Polls, change \in Changes : Tick(events, <<>>, change)
    \/ pauseTrading
    \/ resumeTrading
    \/ \E enabled \in BOOLEAN : setSafeMode(enabled)
    \/ Sleep

\* the configurations without a daily trade limit, and the default one with it
PipelineConfigs ==
    {c \in RiskConfigs : c.dailyTradeLimit = Absent}
    \cup {[DefaultRiskConfig EXCEPT !.dailyTradeLimit = DailyLimit]}

\* 5% slippage, every price 1
SpecPipeline ==
    Setup({Num(5)}, PipelineConfigs, UnitPrices)
    /\ [][PipelineNext]_vars

----------------------------------------------------------------------------
(* A consumer of getState().  It keeps the returned object and writes to   *)
(* it: a write to a scalar field lands in its own copy, a write through    *)
(* the tokenConvictions field lands in the Map the StateLayer reads.       *)

Deltas == {Dec(2, 10), -Dec(3, 10)}
Written == {0, Num(1)}

GetState ==
    /\ held' = [object |-> Scalars(getState(state)), taken |-> TRUE]
    /\ UNCHANGED <<now, simVars, riskVars, state, decisionVars, signalVars,
                   cycle, lastPerceptionPoll, tickLog, loopVars>>

\* snapshot[field] = value
SetField(field, value) ==
    /\ held.taken
    /\ held' = [held EXCEPT !.object[field] = value]
    /\ UNCHANGED <<now, simVars, riskVars, state, decisionVars, signalVars,
                   cycle, lastPerceptionPoll, tickLog, loopVars>>

\* snapshot.tokenConvictions.set(token, value)
SetConviction(token, value) ==
    /\ held.taken
    /\ state' = [state EXCEPT !.tokenConvictions[token] = value]
    /\ UNCHANGED <<now, simVars, riskVars, decisionVars, signalVars, orchVars>>

AdjustTokenConviction(token, delta) ==
    /\ state' = adjustTokenConviction(state, token, delta, now)
    /\ UNCHANGED <<now, simVars, riskVars, decisionVars, signalVars, orchVars>>

SnapshotNext ==
    \/ GetState
    \/ \E field \in {"confidence", "regret"}, value \in Written : SetField(field, value)
    \/ \E token \in Tokens, value \in Written : SetConviction(token, value)
    \/ \E token \in Tokens, delta \in Deltas : AdjustTokenConviction(token, delta)
    \/ \E mode \in {"paused", "observing"} : SetMode(mode)

SpecSnapshot == InitDefault /\ [][SnapshotNext]_vars

\* adjustments that stay inside [0, 1] and adjustments that overshoot it
ConvictionDeltas == {Dec(2, 10), Num(2), -Num(2)}

\* the State Layer under ticks, trade outcomes and conviction adjustments,
\* one call per instant
MindNext ==
    \/ StateTick
    \/ \E trade \in TradeOutcomes : UpdateFromTrade(trade)
    \/ /\ state.timestamp < now
       /\ now <= StartTime + MaxAdjustDays * DayMs
       /\ \E delta \in ConvictionDeltas : AdjustTokenConviction("T1", delta)
    \/ AdvanceState

SpecMind == InitDefault /\ [][MindNext]_vars

----------------------------------------------------------------------------
(* The main loop.  start() and stop() are async: each call is an           *)
(* activation that runs to its next await and is resumed later, and other  *)
(* activations run in between.  A loop activation is [pc, tick, failures]: *)
(* pc is "tick" while it awaits tick(), "sleep" while it awaits sleep(),   *)
(* "catch" when its tick has rejected and the catch block is due, and      *)
(* "returned" after the while loop; tick is the cycle number of its last   *)
(* tick and failures counts its logged tick errors.  A stop activation is  *)
(* [pc, signal, inflight]: pc is "persist" while it awaits memory.persist, *)
(* "shutdown" while it awaits the module shutdowns, "stopped" when it has  *)
(* returned; signal tells a call from the shutdown handler of index.ts,    *)
(* inflight the ticks that were in flight when it was called.              *)

InFlight == {i \in DOMAIN loops : loops[i].pc = "tick"}

\* while (this.running): the next tick begins, or the loop is left
NextIteration(i) ==
    /\ running => cycle < MaxCycles
    /\ IF running
       THEN /\ loops' = [loops EXCEPT ![i].pc = "tick", ![i].tick = cycle + 1]
            /\ cycle' = cycle + 1
       ELSE /\ loops' = [loops EXCEPT ![i].pc = "returned"]
            /\ cycle' = cycle
    /\ UNCHANGED <<now, simVars, riskVars, state, decisionVars, signalVars,
                   lastPerceptionPoll, tickLog, running, stops, exited, held>>

\* start() up to the first await of its first tick
start ==
    /\ ~exited
    /\ ~running
    /\ Len(loops) < MaxLoops
    /\ cycle < MaxCycles
    /\ running' = TRUE
    /\ state' = setMode(state, "observing", now)
    /\ loops' = Append(loops, [pc |-> "tick", tick |-> cycle + 1, failures |-> 0])
    /\ cycle' = cycle + 1
    /\ UNCHANGED <<now, simVars, riskVars, decisionVars, signalVars,
                   lastPerceptionPoll, tickLog, stops, exited, held>>

\* the awaited tick() resolves: the loop goes on to await sleep()
TickResolves(i) ==
    /\ ~exited
    /\ i \in InFlight
    /\ loops' = [loops EXCEPT ![i].pc = "sleep"]
    /\ UNCHANGED <<now, simVars, riskVars, state, decisionVars, signalVars,
                   cycle, lastPerceptionPoll, tickLog, running, stops, exited, held>>

\* the awaited tick() rejects: the catch block is due
TickRejects(i) ==
    /\ ~exited
    /\ i \in InFlight
    /\ loops' = [loops EXCEPT ![i].pc = "catch", ![i].failures = @ + 1]
    /\ UNCHANGED <<now, simVars, riskVars, state, decisionVars, signalVars,
                   cycle, lastPerceptionPoll, tickLog, running, stops, exited, held>>

\* a catch block that leaves the loop
Caught_Leaves(i) ==
    /\ ~exited
    /\ i \in DOMAIN loops
    /\ loops[i].pc = "catch"
    /\ loops' = [loops EXCEPT ![i].pc = "returned"]
    /\ UNCHANGED <<now, simVars, riskVars, state, decisionVars, signalVars,
                   cycle, lastPerceptionPoll, tickLog, running, stops, exited, held>>

\* the catch block logs the error and the loop tests its condition again
Caught(i) ==
    /\ ~exited
    /\ i \in DOMAIN loops
    /\ loops[i].pc = "catch"
    /\ NextIteration(i)

\* sleep() resolves and the loop tests its condition again
Wakes(i) ==
    /\ ~exited
    /\ i \in DOMAIN loops
    /\ loops[i].pc = "sleep"
    /\ NextIteration(i)

\* stop() up to its first await; signal: called by the shutdown handler
stop(signal) ==
    /\ ~exited
    /\ Len(stops) < MaxStops
    /\ IF ~running
       THEN /\ stops' = Append(stops, [pc |-> "stopped", signal |-> signal,
                                       inflight |-> {}])
            /\ UNCHANGED running
       ELSE /\ running' = FALSE
            /\ stops' = Append(stops, [pc |-> "persist", signal |-> signal,
                                       inflight |-> {loops[i].tick : i \in InFlight}])
    /\ UNCHANGED <<now, simVars, riskVars, state, decisionVars, signalVars,
                   cycle, lastPerceptionPoll, tickLog, loops, exited, held>>

\* memory.persist() resolves
Persisted(k) ==
    /\ ~exited
    /\ k \in DOMAIN stops
    /\ stops[k].pc = "persist"
    /\ stops' = [stops EXCEPT ![k].pc = "shutdown"]
    /\ UNCHANGED <<now, simVars, riskVars, state, decisionVars, signalVars,
                   cycle, lastPerceptionPoll, tickLog, running, loops, exited, held>>

\* perception.shutdown(), execution.shutdown() and dashboard.stop() resolve
ShutDown(k) ==
    /\ ~exited
    /\ k \in DOMAIN stops
    /\ stops[k].pc = "shutdown"
    /\ stops' = [stops EXCEPT ![k].pc = "stopped"]
    /\ UNCHANGED <<now, simVars, riskVars, state, decisionVars, signalVars,
                   cycle, lastPerceptionPoll, tickLog, running, loops, exited, held>>

\* the shutdown handler after its await of stop(): process.exit(0)
Exit(k) ==
    /\ ~exited
    /\ k \in DOMAIN stops
    /\ stops[k].pc = "stopped"
    /\ stops[k].signal
    /\ exited' = TRUE
    /\ UNCHANGED <<now, simVars, riskVars, state, decisionVars, signalVars,
                   cycle, lastPerceptionPoll, tickLog, running, loops, stops, held>>

LoopNext ==
    \/ start
    \/ \E i \in 1..MaxLoops : TickResolves(i)
    \/ \E i \in 1..MaxLoops : TickRejects(i)
    \/ \E i \in 1..MaxLoops : Caught(i)
    \/ \E i \in 1..MaxLoops : Wakes(i)
    \/ \E signal \in BOOLEAN : stop(signal)
    \/ \E k \in 1..MaxStops : Persisted(k)
    \/ \E k \in 1..MaxStops : ShutDown(k)
    \/ \E k \in 1..MaxStops : Exit(k)

SpecLoop == InitDefault /\ [][LoopNext]_vars

\* the event loop runs every continuation that is due
FairLoop ==
    /\ InitDefault
    /\ [][LoopNext]_vars
    /\ \A i \in 1..MaxLoops : WF_vars(Caught(i))

----------------------------------------------------------------------------
(* Claims                                                                  *)

\* rounding allowance: each operation rounds an amount and a product
Tolerance == 2 * MaxOps

\* C1: with zero slippage and unchanged prices, any sequence of ENTER, ADD,
\* REDUCE and EXIT intents leaves getTotalValue() at its initial value
\* (within the rounding allowance), whatever tokens the intents target.
C1_Conservation == Abs(getTotalValue - initialCapital) <= Tolerance

\* C10: checkIntent never approves an ENTER intent while the exposure of the
\* positions it is given is at or above maxTotalExposurePct, whatever the
\* intent's sizePct.
C10_ExposureVeto ==
    (/\ lastCheck.intent.type = "enter"
     /\ lastCheck.capital > 0
     /\ calculateExposure(lastCheck.positions, lastCheck.capital) >= maxTotalExposurePct)
    => ~lastCheck.result.approved

SamePair(a, b) == a.type = b.type /\ a.tokenAddress = b.tokenAddress

\* C6 as stated: the active signal list never holds two entries of one
\* (type, tokenAddress) pair.
C6_ListUnique ==
    \A i, j \in DOMAIN activeSignals :
        i # j => ~SamePair(activeSignals[i], activeSignals[j])

\* C6 amended: the active signal list never holds two live entries
\* (expiresAt > now) of one (type, tokenAddress) pair; a detection matching
\* a live listed signal reinforces it.
C6_LiveUnique ==
    \A i, j \in DOMAIN activeSignals :
        (/\ i # j
         /\ activeSignals[i].expiresAt > now
         /\ activeSignals[j].expiresAt > now)
        => ~SamePair(activeSignals[i], activeSignals[j])

\* a listed signal was reinforced by a later matching detection
C6_Reinforced ==
    \E i \in DOMAIN activeSignals :
        /\ activeSignals[i].expiresAt > activeSignals[i].timestamp + decayHalfLifeMs * 3
        /\ activeSignals[i].expiresAt > now

\* C7: the list updateSignals returns at age H holds every never-reinforced
\* signal created with c0 / 2 >= minConfidence, at confidence c0 / 2, and a
\* signal it returns at age 2H has confidence c0 / 4, whatever updateSignals
\* calls came before.
C7_HalfLife ==
    \A k \in DOMAIN newSignals :
        LET c0 == newSignals[k].confidence
            age == observed.at - newSignals[k].timestamp
            seen == SelectSeq(observed.signals, LAMBDA g : g.id = newSignals[k].id)
        IN /\ (age = decayHalfLifeMs /\ c0 \div 2 >= minConfidence)
                => (seen # <<>> /\ Abs(seen[1].confidence - c0 \div 2) <= 2)
           /\ (age = 2 * decayHalfLifeMs /\ seen # <<>>)
                => Abs(seen[1].confidence - c0 \div 4) <= 2

\* C8: an updateSignals call at the instant of the previous call, on the list
\* that call left, changes nothing.
C8_Idempotent ==
    [][(UpdateSignals /\ observed.at = now /\ observed.signals = activeSignals)
         => activeSignals' = activeSignals]_vars

\* C5: a decide() call returns a non-null Intent only when at least
\* intentCooldownMs has elapsed since the previous non-null Intent was
\* returned.
C5_Cooldown ==
    [][(decided' = decided + 1 /\ decided > 0)
         => lastIntent'.timestamp - lastIntent.timestamp >= intentCooldownMs]_vars

\* C2: a tick that decides while mode = SAFE_MODE never risk-approves an
\* ENTER or ADD intent and never forwards one to execution.
C2_SafeModeBlocks ==
    (/\ tickLog.agentState.mode = "safe_mode"
     /\ tickLog.decided.type \in {"enter", "add"})
    => (~tickLog.riskCheck.approved /\ ~tickLog.executed)

\* the loss of the day so far, in percent of the initial capital
DailyLossPct ==
    Mul(Div(initialCapital - getTotalValue, initialCapital), Num(100))

\* C3: a tick that starts with the accumulated daily loss at or above
\* maxDailyLossPct rejects the intent it decides on, unless it is WAIT or
\* WATCH.
C3_LossRejects ==
    [][(/\ cycle' = cycle + 1
        /\ DailyLossPct >= riskConfig.maxDailyLossPct
        /\ tickLog'.decided.type \notin {"null", "wait", "watch"})
         => ~tickLog'.riskCheck.approved]_vars

\* C4: a tick that starts with the accumulated daily loss at or above
\* maxDailyLossPct leaves the agent in SAFE_MODE.
C4_AutoSafeMode ==
    [][(cycle' = cycle + 1 /\ DailyLossPct >= riskConfig.maxDailyLossPct)
         => state'.mode = "safe_mode"]_vars

C11_WaitApproved ==
    lastCheck.intent.type \in {"wait", "watch"}
    => (lastCheck.result.approved /\ lastCheck.result.adjustedSizePct = 0)

\* a WAIT or WATCH was checked with the daily trade limit reached
C11_WaitAtLimit ==
    /\ lastCheck.intent.type \in {"wait", "watch"}
    /\ riskConfig.dailyTradeLimit > 0
    /\ lastCheck.dailyTrades >= riskConfig.dailyTradeLimit
    /\ lastCheck.result.approved

\* the intent behind a result meets one of the simulator's error conditions
\* in the simulator sim: missing token address or size, insufficient capital,
\* no position to exit, add to or reduce
SimulatorError(sim, r) ==
    \/ r.intentType \in {"enter", "add", "reduce"}
       /\ (r.tokenAddress = "" \/ r.intentSizePct = 0)
    \/ r.intentType = "exit" /\ r.tokenAddress = ""
    \/ r.intentType = "enter"
       /\ Mul(sim.capital, Div(r.intentSizePct, Num(100))) > sim.capital
    \/ r.intentType \in {"exit", "add", "reduce"}
       /\ PosIndex(sim.positions, r.tokenAddress) = 0

\* C12: execute returns a TradeResult for every intent, and every simulator
\* error comes back as a result with status FAILED and a non-empty error.
C12_ErrorsReturned ==
    [][ (lastTrade' # lastTrade \/ tradeHistory' # tradeHistory)
        => /\ lastTrade'.status \in {"filled", "failed", "cancelled"}
           /\ lastTrade'.status = "failed" => lastTrade'.error # ""
           /\ SimulatorError(Sim, lastTrade')
              => lastTrade'.status = "failed" /\ lastTrade'.error # "" ]_vars

\* an EXIT for a token without a position has come back FAILED
C12_FailedExit ==
    /\ lastTrade.intentType = "exit"
    /\ lastTrade.tokenAddress \in Tokens
    /\ PosIndex(positions, lastTrade.tokenAddress) = 0
    /\ lastTrade.status = "failed"
    /\ lastTrade.error = "No position to exit"

\* C13: a tick hands an intent to execution.execute only when checkIntent
\* approved it and its type is neither WAIT nor WATCH; a rejected intent
\* leaves the simulator untouched and carries riskApproved = false with the
\* verdict's reason.
C13_ExecutesApproved ==
    [][ cycle' # cycle
        => LET log == tickLog'
               touched == <<capital, positions, mockPrices, tradeHistory, lastTrade>>' #
                          <<capital, positions, mockPrices, tradeHistory, lastTrade>>
               rejected == log.decided # NoIntent /\ ~log.riskCheck.approved
           IN /\ (log.executed \/ touched)
                 => /\ log.decided # NoIntent
                    /\ log.riskCheck = checkIntent(Risk, log.decided, positions, capital)
                    /\ log.riskCheck.approved
                    /\ log.decided.type \notin {"wait", "watch"}
              /\ rejected
                 => /\ ~log.executed /\ ~touched
                    /\ dailyTrades' = dailyTrades
                    /\ log.intent.riskApproved = "false"
                    /\ log.intent.riskBlockReason = log.riskCheck.reason ]_vars

\* a tick whose intent the guardrails rejected
C13_Rejected ==
    /\ tickLog.decided.type \in {"enter", "exit", "add", "reduce"}
    /\ ~tickLog.riskCheck.approved
    /\ tickLog.intent.riskApproved = "false"
    /\ ~tickLog.executed

\* the type of the first rule, in the order EXIT, REDUCE, ENTER, ADD, WAIT,
\* that applies to the filtered signals, the state and the positions
FirstRule(valid, st, ps, t) ==
    IF \E i \in DOMAIN ps : checkExitConditions(ps[i], valid, st, t) # NoIntent
    THEN "exit"
    ELSE IF \E i \in DOMAIN ps : checkReduceConditions(ps[i], valid, st, t) # NoIntent
    THEN "reduce"
    ELSE IF checkEnterConditions(valid, ps, st, t) # NoIntent
    THEN "enter"
    ELSE IF \E i \in DOMAIN ps : checkAddConditions(ps[i], valid, st, t) # NoIntent
    THEN "add"
    ELSE "wait"

Cascade(s) ==
    << <<s.regret > Dec(6, 10), "regretful">>,
       <<s.fatigue > Dec(7, 10), "fatigued">>,
       <<s.suspicion > Dec(6, 10), "suspicious">>,
       <<s.confidence > Dec(7, 10) /\ s.conviction > Dec(6, 10), "confident">>,
       <<s.aggression > Dec(6, 10) /\ s.confidence > Dec(5, 10), "aggressive">>,
       <<s.conviction > Dec(7, 10), "obsessed">>,
       <<s.confidence < Dec(4, 10), "cautious">>,
       <<TRUE, "neutral">> >>

\* C15: after every tick() and updateFromTrade() primaryMood is the mood of
\* the first branch of the cascade whose condition holds; regret 0.7 with
\* suspicion 0.8 gives REGRETFUL.
C15_MoodCascade ==
    /\ \E i \in DOMAIN Cascade(state) :
          /\ Cascade(state)[i][1]
          /\ \A j \in 1..(i - 1) : ~Cascade(state)[j][1]
          /\ state.primaryMood = Cascade(state)[i][2]
    /\ updateMood([InitialState EXCEPT !.regret = Dec(7, 10),
                                       !.suspicion = Dec(8, 10)]).primaryMood
       = "regretful"

\* losses have raised regret and suspicion above 0.6 together
C15_RegretOverSuspicion ==
    /\ state.regret > Dec(6, 10)
    /\ state.suspicion > Dec(6, 10)
    /\ state.recentLossStreak > 0
    /\ state.primaryMood = "regretful"

\* the Position of token, as positions.get(token); <<>> has none
Holding(ps, token) == ps[PosIndex(ps, token)]

\* C16: with capital 100 and zero slippage, ENTER with sizePct 10 filled at
\* price 1.0 gives a Position of amount 10 at average entry price 1.0 and
\* capital 90; updatePositions at price 1.2 gives it unrealizedPnL 2.0 and
\* unrealizedPnLPct 20; EXIT filled at price 1.2 gives capital 102, removes
\* the Position and returns FILLED.
C16_Scenario ==
    [][ slippagePct = 0 =>
        /\ ( /\ tradeHistory' = tradeHistory + 1
             /\ lastTrade'.intentType = "enter"
             /\ lastTrade'.intentSizePct = Num(10)
             /\ lastTrade'.price = Num(1)
             /\ capital = Num(100) )
           => /\ lastTrade'.status = "filled"
              /\ Holding(positions', lastTrade'.tokenAddress).amount = Num(10)
              /\ Holding(positions', lastTrade'.tokenAddress).averageEntryPrice = Num(1)
              /\ capital' = Num(90)
        /\ \A i \in DOMAIN positions :
              ( /\ tradeHistory' = tradeHistory
                /\ DOMAIN positions' = DOMAIN positions
                /\ positions[i].amount = Num(10)
                /\ positions[i].averageEntryPrice = Num(1)
                /\ positions'[i] # positions[i]
                /\ positions'[i].currentPrice = Dec(12, 10) )
              => /\ positions'[i].unrealizedPnL = Num(2)
                 /\ positions'[i].unrealizedPnLPct = Num(20)
        /\ ( /\ tradeHistory' = tradeHistory + 1
             /\ lastTrade'.intentType = "exit"
             /\ lastTrade'.price = Dec(12, 10)
             /\ capital = Num(90)
             /\ PosIndex(positions, lastTrade'.tokenAddress) # 0
             /\ Holding(positions, lastTrade'.tokenAddress).amount = Num(10) )
           => /\ lastTrade'.status = "filled"
              /\ capital' = Num(102)
              /\ PosIndex(positions', lastTrade'.tokenAddress) = 0 ]_vars

\* the scenario has run to its end: the Position marked at 1.2 with a PnL of
\* 20% was exited at 1.2 and the capital is 102
C16_Exited ==
    /\ slippagePct = 0
    /\ tradeHistory = 2
    /\ lastTrade.intentType = "exit"
    /\ lastTrade.status = "filled"
    /\ lastTrade.price = Dec(12, 10)
    /\ lastTrade.filledAmount = Num(10)
    /\ capital = Num(102)
    /\ positions = <<>>

\* C17: at most one tick() is in flight at any time, whatever the
\* interleaving of start() and stop() with the awaits of the loop.
C17_OneTick == Cardinality(InFlight) <= 1

\* C18: the teardown of a stop() called while a tick was in flight (its
\* memory.persist(), the shutdowns after it, the process exit of the signal
\* handler) takes effect only after that tick has completed.
C18_TeardownAfterTick ==
    [][ \A k \in DOMAIN stops :
          ( \/ stops[k].pc = "persist" /\ stops'[k].pc # "persist"
            \/ stops[k].signal /\ exited' /\ ~exited )
          => \A i \in InFlight : loops[i].tick \notin stops[k].inflight ]_vars

\* C19: a tick that throws does not end the loop, and while running stays
\* true another tick is eventually started after it.
C19_RetryAfterFailure ==
    /\ [][ \A i \in DOMAIN loops :
             (loops[i].pc = "catch" /\ running /\ running')
             => loops'[i].pc \in {"catch", "tick"} ]_vars
    /\ \A i \in 1..MaxLoops :
          [](( i \in DOMAIN loops /\ loops[i].pc = "catch")
             => <>( \/ ~running
                    \/ exited
                    \/ cycle = MaxCycles
                    \/ i \in InFlight ))

\* a loop has a tick in flight after one of its ticks had thrown
C19_Retried ==
    \E i \in InFlight : loops[i].failures > 0 /\ running /\ ~exited

\* C20: no write a consumer makes to the object returned by getState(), to
\* a scalar field or through its tokenConvictions map, changes the state
\* inside the StateLayer.
C20_SnapshotIsolated ==
    [][ ( \/ \E field \in {"confidence", "regret"}, value \in Written :
               SetField(field, value)
          \/ \E token \in Tokens, value \in Written : SetConviction(token, value) )
        => state' = state ]_vars

\* C21: when a detector throws while processEvents() runs, every other
\* detector has still run and its results have become or reinforced signals,
\* and the event window is the one the call would have left without the
\* failure.
C21_DetectorIsolated ==
    [][ (eventWindow' # eventWindow /\ detectVolumeSurgeThrows(eventWindow', now))
        => /\ \A i \in DOMAIN eventWindow' : eventWindow'[i].timestamp > now - windowSizeMs
           /\ LET others == detectLiquidityPull(eventWindow', now)
              IN \A k \in DOMAIN others :
                    others[k].confidence >= minConfidence
                    => \E j \in DOMAIN activeSignals' :
                          /\ SamePair(activeSignals'[j], others[k])
                          /\ activeSignals'[j].expiresAt = now + decayHalfLifeMs * 3 ]_vars

\* the signals of list of the pair of result
OfPair(list, result) == {j \in DOMAIN list : SamePair(list[j], result)}

\* what C22 asks of one detection that found the live signal number existing
MergedInto(before, after, result, existing) ==
    /\ Cardinality(OfPair(after, result)) = Cardinality(OfPair(before, result))
    /\ after[existing].confidence >= before[existing].confidence
    /\ after[existing].confidence >= result.confidence

\* C22: a detection that matches a live signal of its (type, tokenAddress)
\* makes processEvents create no second signal of the pair, and leaves that
\* signal with a confidence at least the prior one and at least the detection's.
C22_ReinforcedAtLeast ==
    [][ eventWindow' # eventWindow
        => LET results == runAllDetectors(eventWindow', <<>>, now)
           IN \A k \in DOMAIN results :
                 LET existing == FindExisting(activeSignals, results[k], now)
                 IN (results[k].confidence >= minConfidence /\ existing # 0)
                    => MergedInto(activeSignals, activeSignals', results[k], existing) ]_vars

\* C23: every stored signal has a confidence within [0, 1], whatever the
\* multipliers of the volume events (below one and negative included) and
\* whatever processEvents and updateSignals calls came before, and a
\* reinforcement never leaves a confidence above 0.99.
C23_ConfidenceRange ==
    [][ \A i \in DOMAIN activeSignals' :
           /\ activeSignals'[i].confidence >= 0
           /\ activeSignals'[i].confidence <= Num(1)
           /\ (/\ i \in DOMAIN activeSignals
               /\ eventWindow' # eventWindow
               /\ activeSignals'[i].confidence > activeSignals[i].confidence)
              => activeSignals'[i].confidence <= Dec(99, 100) ]_vars

\* a signal is stored that a negative multiplier produced, and another
\* stored signal has been reinforced up to the cap
C23_NegativeStored ==
    /\ \E i \in DOMAIN activeSignals : activeSignals[i].strength < 0
    /\ \E i \in DOMAIN activeSignals : activeSignals[i].confidence = Dec(99, 100)

\* C24: a tick that decides while mode = PAUSED never risk-approves an ENTER
\* or ADD intent and never forwards one to the simulator.
C24_PausedBlocks ==
    (/\ tickLog.agentState.mode = "paused"
     /\ tickLog.decided.type \in {"enter", "add"})
    => (~tickLog.riskCheck.approved /\ ~tickLog.executed)

\* C25: while the daily-loss condition of safe mode is true, checkIntent
\* rejects ENTER and ADD and approves EXIT and REDUCE.
C25_SafeModeAllowsExit ==
    shouldEnterSafeMode(Risk)
    => /\ lastCheck.intent.type \in {"enter", "add"} => ~lastCheck.result.approved
       /\ lastCheck.intent.type \in {"exit", "reduce"} => lastCheck.result.approved

\* C26: the simulator holds at most one Position per token, and an ENTER
\* for a token that already has a Position neither creates nor replaces one.
C26_EnterKeepsPosition ==
    [][ /\ \A i, j \in DOMAIN positions' :
              i # j => positions'[i].tokenAddress # positions'[j].tokenAddress
        /\ (/\ tradeHistory' = tradeHistory + 1
            /\ lastTrade'.intentType = "enter"
            /\ PosIndex(positions, lastTrade'.tokenAddress) # 0)
           => positions' = positions ]_vars

\* C27: once a tick has applied the verdict of checkIntent, the intent
\* differs from what decide() returned in riskApproved, in riskBlockReason
\* and, when the verdict carries an adjusted size, in a smaller sizePct, and
\* in nothing else: type, tokenAddress, reason and supporting signals stay.
C27_IntentFrame ==
    tickLog.decided # NoIntent
    => /\ [tickLog.intent EXCEPT !.riskApproved = tickLog.decided.riskApproved,
                                 !.riskBlockReason = tickLog.decided.riskBlockReason,
                                 !.sizePct = tickLog.decided.sizePct]
          = tickLog.decided
       /\ \/ tickLog.intent.sizePct = tickLog.decided.sizePct
          \/ /\ tickLog.riskCheck.approved
             /\ tickLog.riskCheck.adjustedSizePct # 0
             /\ tickLog.riskCheck.adjustedSizePct = tickLog.intent.sizePct
             /\ tickLog.intent.sizePct < tickLog.decided.sizePct

\* a tick approved an ENTER with an adjusted size and wrote it into the intent
C27_Applied ==
    /\ tickLog.decided.type = "enter"
    /\ tickLog.intent.riskApproved = "true"
    /\ tickLog.intent.sizePct < tickLog.decided.sizePct
    /\ tickLog.intent.supportingSignals # <<>>

\* C28: for every configured dailyTradeLimit, a checkIntent call made with
\* at least that many trades recorded since the last resetDaily() rejects
\* every intent other than WAIT and WATCH; only recordTrade raises the count
\* and resetDaily sets it to zero.
C28_LimitRejects ==
    [][ /\ (/\ lastCheck' # lastCheck
            /\ riskConfig.dailyTradeLimit # Absent
            /\ dailyTrades >= riskConfig.dailyTradeLimit
            /\ lastCheck'.intent.type \notin {"wait", "watch"})
           => ~lastCheck'.result.approved
        /\ dailyTrades' > dailyTrades
           => (dailyTrades' = dailyTrades + 1 /\ lastCheck' = lastCheck)
        /\ dailyTrades' < dailyTrades => dailyTrades' = 0 ]_vars

WinCounted == state'.recentWinStreak = state.recentWinStreak + 1 /\ state'.recentLossStreak = 0
LossCounted == state'.recentLossStreak = state.recentLossStreak + 1 /\ state'.recentWinStreak = 0

\* C30 as stated: updateFromTrade counts every FILLED trade as a win and
\* every trade that is FAILED or carries an error as a loss.
C30_FilledIsWin ==
    [][ state'.lastTradeTimestamp # state.lastTradeTimestamp
        => /\ lastTrade'.status = "filled" => WinCounted
           /\ (lastTrade'.status = "failed" \/ lastTrade'.error # "") => LossCounted ]_vars

\* C30 amended: updateFromTrade counts a FILLED trade with a positive filled
\* amount as a win, any other trade that is FAILED or carries an error as a
\* loss, and leaves both streaks alone after a trade that is neither.
C30_PositiveFillIsWin ==
    [][ state'.lastTradeTimestamp # state.lastTradeTimestamp
        => LET isWin == lastTrade'.status = "filled" /\ lastTrade'.filledAmount > 0
               isLoss == lastTrade'.status = "failed" \/ lastTrade'.error # ""
           IN /\ isWin => WinCounted
              /\ (~isWin /\ isLoss) => LossCounted
              /\ (~isWin /\ ~isLoss)
                 => /\ state'.recentWinStreak = state.recentWinStreak
                    /\ state'.recentLossStreak = state.recentLossStreak ]_vars

\* a FAILED result has just been consumed as a loss: the loss streak stands
\* at 1, the win streak at 0 and the confidence has dropped below its start
C30_FailedEndsStreak ==
    /\ lastTrade.status = "failed"
    /\ state.lastTradeTimestamp = now
    /\ state.recentLossStreak = 1
    /\ state.recentWinStreak = 0
    /\ state.confidence < Dec(5, 10)

\* C31: every decide() call that returns a non-null Intent, a WAIT for want
\* of strong signals included, sets lastIntentTime to the current time, so
\* that canDecide() is false until intentCooldownMs has passed.
C31_IntentResetsCooldown ==
    [][ decided' = decided + 1
        => (lastIntentTime' = now /\ ~canDecide(lastIntentTime', now)) ]_vars

\* no signal of sigs reaches minSignalConfidence
AllWeak(sigs) == \A i \in DOMAIN sigs : sigs[i].confidence < minSignalConfidence

C33_NoEnterWhenCautious ==
    decideResult.type = "enter"
    => decideInput.state.primaryMood \notin {"cautious", "regretful"}

\* decide() was called in a cautious or regretful mood, without positions, on
\* a volume surge strong enough for an entry, and returned a WAIT
C33_HeldBack ==
    /\ decideInput.state.primaryMood \in {"cautious", "regretful"}
    /\ decideInput.positions = <<>>
    /\ \E i \in DOMAIN decideInput.signals :
          /\ decideInput.signals[i].type = "volume_surge"
          /\ Score(decideInput.signals[i])
               >= Mul(Dec(4, 10), Num(2) - decideInput.state.confidence)
    /\ decideResult.type = "wait"

\* C34: every ENTER intent decide() returns targets a token that has no
\* position among the positions passed, rests on one passed signal of type
\* EARLY_MOMENTUM or VOLUME_SURGE for that token whose score confidence *
\* strength * urgency is at least 0.4 * (2 - state.confidence), and carries
\* sizePct = min(20, 10 * riskAppetite * confidence).
C34_EnterIntent ==
    decideResult.type = "enter"
    => /\ PosIndex(decideInput.positions, decideResult.tokenAddress) = 0
       /\ \E i \in DOMAIN decideInput.signals :
             /\ decideResult.supportingSignals = << decideInput.signals[i].id >>
             /\ decideInput.signals[i].tokenAddress = decideResult.tokenAddress
             /\ decideInput.signals[i].type \in {"early_momentum", "volume_surge"}
             /\ Score(decideInput.signals[i])
                  >= Mul(Dec(4, 10), Num(2) - decideInput.state.confidence)
       /\ decideResult.sizePct
            = Min(Num(20), Mul(Mul(Num(10), decideInput.state.riskAppetite),
                               decideInput.state.confidence))

\* decide() returned an ENTER for one token while a position in another
\* token was passed to it
C34_EnteredBesideHolding ==
    /\ decideResult.type = "enter"
    /\ decideInput.positions # <<>>
    /\ decideResult.sizePct > 0

\* C34 in the pipeline: a tick that executes an ENTER does
\* so for a token that had no Position when the tick began
C34_TickEntersFreeToken ==
    [][ (cycle' # cycle /\ tickLog'.executed /\ tickLog'.decided.type = "enter")
        => PosIndex(positions, tickLog'.decided.tokenAddress) = 0 ]_vars

\* C35: a filled REDUCE, of any sizePct up to 100, leaves the token's
\* Position in the simulator with its amount lowered by the amount sold,
\* and a Position leaves the simulator only through a filled EXIT.
C35_ReduceKeepsPosition ==
    [][ /\ (/\ tradeHistory' = tradeHistory + 1
            /\ lastTrade'.intentType = "reduce"
            /\ lastTrade'.status = "filled")
           => LET i == PosIndex(positions, lastTrade'.tokenAddress)
              IN /\ i # 0
                 /\ Len(positions') = Len(positions)
                 /\ positions'[i].tokenAddress = lastTrade'.tokenAddress
                 /\ positions'[i].amount = positions[i].amount - lastTrade'.filledAmount
        /\ Len(positions') < Len(positions)
           => /\ tradeHistory' = tradeHistory + 1
              /\ lastTrade'.intentType = "exit"
              /\ lastTrade'.status = "filled" ]_vars

\* a REDUCE of 100% was filled and the Position is still held, with amount 0
C35_EmptyPositionHeld ==
    /\ lastTrade.intentType = "reduce"
    /\ lastTrade.status = "filled"
    /\ lastTrade.intentSizePct = Num(100)
    /\ lastTrade.filledAmount > 0
    /\ PosIndex(positions, lastTrade.tokenAddress) # 0
    /\ positions[PosIndex(positions, lastTrade.tokenAddress)].amount = 0

\* C38: an execute call that returns a FAILED result leaves the capital and
\* the position map of the simulator as they were before the call.
C38_FailureChangesNothing ==
    [][ (lastTrade' # lastTrade /\ lastTrade'.status = "failed")
        => (capital' = capital /\ positions' = positions) ]_vars

\* an ENTER failed for want of capital after earlier trades had built a
\* book, and the book is still there
C38_FailedOnBook ==
    /\ lastTrade.status = "failed"
    /\ lastTrade.error = "Insufficient capital"
    /\ positions # <<>>
    /\ capital < initialCapital

\* C36: when updateSignals() returns at time now, the layer's active list
\* is the returned list and every signal in it has
\* confidence >= minConfidence and expiresAt > now.
C36_OnlyLiveSignals ==
    [][ observed' # observed
        => /\ observed'.at = now
           /\ activeSignals' = observed'.signals
           /\ \A i \in DOMAIN activeSignals' :
                /\ activeSignals'[i].confidence >= minConfidence
                /\ activeSignals'[i].expiresAt > now ]_vars

\* an update dropped one of the two signals created so far and kept the
\* other, which is older than the update
C36_OneDroppedOneKept ==
    /\ observed.at = now
    /\ activeSignals = observed.signals
    /\ Len(activeSignals) = 1
    /\ signalIdCounter = 2
    /\ activeSignals[1].timestamp < now

\* C36 in the pipeline: the signals a tick hands to decide() are the list
\* updateSignals() returned in that tick, all live at the time of the tick.
C36_DecideSeesLiveSignals ==
    cycle > 0 =>
        \A i \in DOMAIN decideInput.signals :
            /\ decideInput.signals[i].confidence >= minConfidence
            /\ decideInput.signals[i].expiresAt > observed.at

C40_NeverNegative ==
    /\ capital >= 0
    /\ \A i \in DOMAIN positions : positions[i].amount >= 0
    /\ \A a \in Tokens : mockPrices[a] > 0

\* all the capital is invested in one token while the Position of the other
\* was reduced to amount 0
C40_AllInAndSoldOut ==
    /\ capital = 0
    /\ \E i \in DOMAIN positions : positions[i].amount = 0
    /\ \E i \in DOMAIN positions : positions[i].amount > 0

====
